---- MODULE Spec2Model ----
(***************************************************************************)
(* A model of the two-phase ingestion pipeline:                            *)
(*   phase 1 (phase1_scraping.py): task acquisition, archive validation,   *)
(*     token -> bucket registry, normalisation, manifest;                  *)
(*   phase 2 (phase2_load.py): file registration, staging, schema          *)
(*     evolution and merge into canonical tables.                          *)
(*                                                                         *)
(* Strings are sequences of one-character strings, so that formatting      *)
(* (f"{n:02d}"), parsing (re.search(r"(\d+)$")), sanitising and the        *)
(* byte-wise ordering of ORDER BY are computed, not assumed.               *)
(***************************************************************************)
EXTENDS Integers, Sequences, FiniteSets, TLC

(***************************************************************************)
(* Characters and strings                                                  *)
(***************************************************************************)

\* The characters the model uses, in ASCII order (SQLite's BINARY collation
\* and Python's str comparison both order by code point).
Ascii ==
    << " ", "+", "-", ".", "/",
       "0", "1", "2", "3", "4", "5", "6", "7", "8", "9", ":",
       "A", "B", "K", "T", "X", "_",
       "a", "b", "c", "d", "e", "f", "g", "h", "i", "j", "k", "l", "m",
       "n", "o", "p", "q", "r", "s", "t", "u", "v", "w", "x", "y", "z" >>

\* the rank of each character in that order, computed once
CodeTable ==
    [c \in { Ascii[i] : i \in 1..Len(Ascii) } |->
        CHOOSE i \in 1..Len(Ascii) : Ascii[i] = c]

Code(c) == CodeTable[c]

DigitChars == << "0", "1", "2", "3", "4", "5", "6", "7", "8", "9" >>

IsDigit(c) == \E i \in 1..10 : DigitChars[i] = c

DigitVal(c) == (CHOOSE i \in 1..10 : DigitChars[i] = c) - 1

UpperChars == << "A", "B", "K", "T", "X" >>

LowerChars == << "a", "b", "k", "t", "x" >>

IsUpper(c) == \E i \in 1..Len(UpperChars) : UpperChars[i] = c

IsLower(c) ==
    c \in { "a", "b", "c", "d", "e", "f", "g", "h", "i", "j", "k", "l", "m",
            "n", "o", "p", "q", "r", "s", "t", "u", "v", "w", "x", "y", "z" }

\* str.lower() on one character
LowerChar(c) ==
    IF IsUpper(c)
    THEN LowerChars[CHOOSE i \in 1..Len(UpperChars) : UpperChars[i] = c]
    ELSE c

\* a < b in byte order (a proper prefix sorts before the longer string)
RECURSIVE StrLess(_, _)
StrLess(a, b) ==
    IF b = << >> THEN FALSE
    ELSE IF a = << >> THEN TRUE
    ELSE IF a[1] = b[1] THEN StrLess(Tail(a), Tail(b))
    ELSE Code(a[1]) < Code(b[1])

\* str(n) for n >= 0
RECURSIVE Dec(_)
Dec(n) == IF n < 10 THEN << DigitChars[n + 1] >>
          ELSE Dec(n \div 10) \o << DigitChars[(n % 10) + 1] >>

\* f"{n:02d}" for n >= 0: zero-padded to width 2, longer numbers unpadded
Fmt02(n) == IF n < 10 THEN << "0" >> \o Dec(n) ELSE Dec(n)

\* int(s) for a string of digits
RECURSIVE ParseInt(_)
ParseInt(s) == IF s = << >> THEN 0
               ELSE 10 * ParseInt(SubSeq(s, 1, Len(s) - 1)) + DigitVal(s[Len(s)])

\* The match of re.search(r"(\d+)$", s): the maximal run of digits that ends
\* the string, << >> when the string does not end in a digit (no match).
TrailingDigits(s) ==
    LET starts == { i \in 1..Len(s) : \A j \in i..Len(s) : IsDigit(s[j]) }
    IN  IF starts = {} THEN << >>
        ELSE SubSeq(s, CHOOSE i \in starts : \A k \in starts : i <= k, Len(s))

(***************************************************************************)
(* sanitize_token                                                          *)
(***************************************************************************)

\* re.sub(r"_+", "_", s)
RECURSIVE CollapseUnderscores(_)
CollapseUnderscores(s) ==
    IF Len(s) <= 1 THEN s
    ELSE CHOOSE r \in { IF s[1] = "_" /\ s[2] = "_"
                        THEN CollapseUnderscores(rest)
                        ELSE << s[1] >> \o CollapseUnderscores(rest) :
                        rest \in { Tail(s) } } : TRUE

\* s.strip("_")
RECURSIVE StripUnderscores(_)
StripUnderscores(s) ==
    IF s = << >> THEN s
    ELSE IF s[1] = "_"
    THEN CHOOSE r \in { StripUnderscores(rest) : rest \in { Tail(s) } } : TRUE
    ELSE IF s[Len(s)] = "_"
    THEN CHOOSE r \in { StripUnderscores(rest) :
                          rest \in { SubSeq(s, 1, Len(s) - 1) } } : TRUE
    ELSE s

\* re.sub(r"[^A-Za-z0-9_]", "_", token).lower()
SubAndLower(token) ==
    [i \in 1..Len(token) |->
        IF IsUpper(token[i]) \/ IsLower(token[i]) \/ IsDigit(token[i]) \/ token[i] = "_"
        THEN LowerChar(token[i]) ELSE "_"]

\* the two closing steps: "table" for an empty result, "t_" before a digit
DefaultAndPrefix(s) ==
    IF s = << >> THEN << "t", "a", "b", "l", "e" >>
    ELSE IF IsDigit(s[1]) THEN << "t", "_" >> \o s
    ELSE s

\* a sanitize_token that adds the prefix before it collapses and strips
sanitize_token_prefix_first(token) ==
    StripUnderscores(CollapseUnderscores(DefaultAndPrefix(SubAndLower(token))))

\* (the set binding has the stripped string computed once)
sanitize_token(token) ==
    CHOOSE r \in { DefaultAndPrefix(s) :
                     s \in { StripUnderscores(CollapseUnderscores(SubAndLower(token))) } } :
        TRUE

(***************************************************************************)
(* The types table and get_or_alloc_type                                   *)
(***************************************************************************)

\* soft cap on the number of buckets
MAX_TYPES == 25

NoValue == << "<None>" >>

\* The types table is the sequence of its rows in insertion (rowid) order;
\* rows are never updated or deleted. first_seen is a wall-clock text that no
\* code reads, and is left out.
TypeRow(token, canonical, overflow) ==
    [token |-> token, canonical |-> canonical, overflow |-> overflow]

\* SELECT canonical FROM types WHERE token=?   (the set of matching rows)
SelectByToken(tbl, token) == { i \in 1..Len(tbl) : tbl[i].token = token }

\* SELECT canonical FROM types ORDER BY canonical DESC LIMIT 1 on a non-empty
\* table: the greatest canonical name in byte order (of rows lo..hi, by halves).
RECURSIVE GreatestIn(_, _, _)
GreatestIn(tbl, lo, hi) ==
    IF lo = hi THEN tbl[lo].canonical
    ELSE CHOOSE g \in { IF StrLess(l, r) THEN r ELSE l :
                          l \in { GreatestIn(tbl, lo, (lo + hi) \div 2) },
                          r \in { GreatestIn(tbl, ((lo + hi) \div 2) + 1, hi) } } : TRUE

HighestCanonical(tbl) == GreatestIn(tbl, 1, Len(tbl))

\* next_idx: 1 on an empty table, else the trailing number of the greatest
\* canonical name plus one (0 + 1 if that name has no trailing number)
NextIdx(tbl) ==
    IF tbl = << >> THEN 1
    ELSE CHOOSE n \in { (IF m = << >> THEN 0 ELSE ParseInt(m)) + 1 :
                          m \in { TrailingDigits(top) :
                                    top \in { HighestCanonical(tbl) } } } : TRUE

\* f"table_{next_idx:02d}"
CanonicalName(idx) == << "t", "a", "b", "l", "e", "_" >> \o Fmt02(idx)

\* the flag with the comparison off by one
OverflowFlagFromCap(idx) == IF idx >= MAX_TYPES THEN 1 ELSE 0

\* overflow = 1 if next_idx > MAX_TYPES else 0
OverflowFlag(idx) == IF idx > MAX_TYPES THEN 1 ELSE 0

\* the table's constraints with UNIQUE(canonical) left out
TypesConstraintsTokenOnly(tbl, row) ==
    \A i \in 1..Len(tbl) : tbl[i].token # row.token

\* The constraints of CREATE TABLE types: token PRIMARY KEY, canonical UNIQUE.
TypesConstraintsAllow(tbl, row) ==
    /\ \A i \in 1..Len(tbl) : tbl[i].token # row.token
    /\ \A i \in 1..Len(tbl) : tbl[i].canonical # row.canonical

\* the row get_or_alloc_type builds for a new token
NewRow(token, idx) == TypeRow(token, CanonicalName(idx), OverflowFlag(idx))

\* INSERT INTO types(token, canonical, overflow, first_seen) VALUES (...);
\* con.commit(); return canonical  -  or the INSERT raises
InsertRow(tbl, row) ==
    IF TypesConstraintsAllow(tbl, row)
    THEN [tbl |-> Append(tbl, row), token |-> row.token,
          ret |-> row.canonical, exc |-> "none"]
    ELSE [tbl |-> tbl, token |-> row.token,
          ret |-> NoValue, exc |-> "IntegrityError"]

\* get_or_alloc_type without the lookup of an existing mapping
GetOrAllocNoLookup(tbl, raw) ==
    CHOOSE res \in { InsertRow(tbl, NewRow(token, idx)) :
                       token \in { sanitize_token(raw) },
                       idx \in { NextIdx(tbl) } } : TRUE

\* The result of one get_or_alloc_type call on table tbl:
\*   tbl - the table afterwards, ret - the returned bucket name,
\*   exc - "none" or the exception the call raised.
GetOrAllocResult(tbl, raw) ==
    CHOOSE res \in
        { IF hit # {}
          THEN [tbl |-> tbl, token |-> token,
                ret |-> tbl[CHOOSE i \in hit : TRUE].canonical, exc |-> "none"]
          ELSE CHOOSE ins \in { InsertRow(tbl, NewRow(token, idx)) :
                                  idx \in { NextIdx(tbl) } } : TRUE :
          hit \in { SelectByToken(tbl, token) : token \in { sanitize_token(raw) } },
          token \in { sanitize_token(raw) } } : TRUE

\* The bucket index a canonical name carries
BucketIndex(canonical) == ParseInt(TrailingDigits(canonical))

(***************************************************************************)
(* Phase one: tasks, archives, paths, manifest                             *)
(***************************************************************************)

\* zero-padded decimal of width w: f"{n:0wd}"
RECURSIVE ZeroPad(_, _)
ZeroPad(n, w) == IF Len(Dec(n)) >= w THEN Dec(n) ELSE << "0" >> \o ZeroPad(n, w - 1)

\* IDS = [f"{i:05d}" for i in range(1, 51)], of which the model runs the first two
IDS == << ZeroPad(1, 5), ZeroPad(2, 5) >>

START_YM == << 2010, 1 >>

\* (date.today().year, date.today().month): the model's "today" is February 2010
END_YM == << 2010, 2 >>

\* a range that stops before the end month
months_range_end_exclusive(start, end) ==
    LET a == start[1] * 12 + (start[2] - 1)
        b == end[1] * 12 + (end[2] - 1)
    IN  [k \in 1..(b - a) |-> << (a + k - 1) \div 12, ((a + k - 1) % 12) + 1 >>]

\* months_range(start, end): the (yyyy, mm) pairs from start to end inclusive
months_range(start, end) ==
    LET a == start[1] * 12 + (start[2] - 1)
        b == end[1] * 12 + (end[2] - 1)
    IN  [k \in 1..(b + 1 - a) |-> << (a + k - 1) \div 12, ((a + k - 1) % 12) + 1 >>]

\* Task(id, yyyy, mm)
Task(id, yyyy, mm) == [id |-> id, yyyy |-> yyyy, mm |-> mm]

\* the generator of main: for id_ in IDS, for (yy, mm) in months_range(...)
tasks(ids, start, end) ==
    LET months == months_range(start, end)
        nm     == Len(months)
    IN  [k \in 1..(Len(ids) * nm) |->
            Task(ids[((k - 1) \div nm) + 1],
                 months[((k - 1) % nm) + 1][1],
                 months[((k - 1) % nm) + 1][2])]

AllTasks == tasks(IDS, START_YM, END_YM)

\* MAX_TASKS: the ceiling on tasks per run, 0 for none
MAX_TASKS == 2

\* the number of tasks main processes in one run
RunLength ==
    IF MAX_TASKS # 0 /\ MAX_TASKS < Len(AllTasks) THEN MAX_TASKS ELSE Len(AllTasks)

RunTasks == { AllTasks[k] : k \in 1..RunLength }

\* --- archives ---
\* An archive (the bytes download_zip returns) is described by what the code
\* can observe of it: whether it starts with PK\x03\x04, whether zipfile can
\* read its directory, and its members. A member carries its CRC state, the
\* groups FNAME_RE.search extracts from its name (matched = FALSE when the
\* pattern finds nothing), its stem, and the rows csv.reader yields from it.
Member(isdir, crc_ok, matched, id, yyyy, mm, table, stem, rows) ==
    [isdir |-> isdir, crc_ok |-> crc_ok, matched |-> matched, id |-> id,
     yyyy |-> yyyy, mm |-> mm, table |-> table, stem |-> stem, rows |-> rows]

\* "<id>_<yyyy>-<mm>_" as fabricate_zip_bytes names its members
NamePrefix(t) ==
    t.id \o << "_" >> \o Dec(t.yyyy) \o << "-" >> \o ZeroPad(t.mm, 2) \o << "_" >>

\* CSV contents as csv.reader returns them: a list of rows, each a list of
\* cells, the first row being the header
Rows1 == << << << "a" >>, << "b" >> >>, << << "A", "0" >>, << "1" >> >> >>

Rows2 == << << << "a" >> >>, << << "x" >> >>, << << "y" >> >> >>

\* member "<id>_<yyyy>-<mm>_<tok>.csv": FNAME_RE's table group is "_<tok>"
NamedMember(t, tok, crc_ok, rows) ==
    Member(FALSE, crc_ok, TRUE, t.id, t.yyyy, t.mm, << "_" >> \o tok,
           NamePrefix(t) \o tok, rows)

\* member "x_c.csv": no digits, FNAME_RE finds nothing
PlainMember(rows) ==
    Member(FALSE, TRUE, FALSE, << >>, 0, 0, << >>, << "x", "_", "c" >>, rows)

DirMember ==
    Member(TRUE, TRUE, FALSE, << >>, 0, 0, << >>, << "d" >>, << >>)

Archive(magic, wellformed, members) ==
    [magic |-> magic, wellformed |-> wellformed, members |-> members]

NoBuf == Archive(FALSE, FALSE, << >>)

\* what the source may serve for task t
Catalog(t) ==
    { Archive(FALSE, FALSE, << >>),
      Archive(TRUE, TRUE, << NamedMember(t, << "A", "-", "b" >>, FALSE, Rows1) >>),
      Archive(TRUE, TRUE, << DirMember, NamedMember(t, << "A", "-", "b" >>, TRUE, Rows1) >>),
      Archive(TRUE, TRUE, << NamedMember(t, << "a", "_", "b" >>, TRUE, << >>),
                             PlainMember(Rows2) >>) }

\* sha256_bytes: the digest stands for the bytes it was computed from
sha256_bytes(b) == [digest_of |-> b]

NoSha == [digest_of |-> NoBuf]

\* safe_open_zip without the CRC test
safe_open_zip_magic_only(archive) ==
    IF ~ archive.magic THEN "Not a ZIP (bad magic bytes)"
    ELSE IF ~ archive.wellformed THEN "File is not a zip file"
    ELSE "ok"

\* safe_open_zip: "ok", or the text of the exception it raises
safe_open_zip(archive) ==
    IF ~ archive.magic THEN "Not a ZIP (bad magic bytes)"
    ELSE IF ~ archive.wellformed THEN "File is not a zip file"
    ELSE IF \E i \in 1..Len(archive.members) : ~ archive.members[i].crc_ok
         THEN "ZIP CRC failed for member"
    ELSE "ok"

\* --- paths ---
\* RAW / t.id / f"{yyyy:04d}" / f"{mm:02d}" / name
RawPath(t, name) ==
    [id |-> t.id, yyyy |-> ZeroPad(t.yyyy, 4), mm |-> ZeroPad(t.mm, 2), name |-> name]

FinalPath(t) == RawPath(t, "source.zip")

TmpPath(t) == RawPath(t, "source.zip.part")

NoPath == [id |-> << >>, yyyy |-> << >>, mm |-> << >>, name |-> "<None>"]

\* NORM / canonical / id_ / f"{yyyy:04d}" / f"{mm:02d}" / (stem + ".csv")
NormPath(canonical, id, yyyy, mm, stem) ==
    [bucket |-> canonical, id |-> id, yyyy |-> ZeroPad(yyyy, 4),
     mm |-> ZeroPad(mm, 2), name |-> stem \o << ".", "c", "s", "v" >>]

\* Path(name).stem.split("_")[-1]
RECURSIVE LastPiece(_)
LastPiece(stem) ==
    IF stem = << >> THEN << >>
    ELSE IF stem[Len(stem)] = "_" THEN << >>
    ELSE CHOOSE r \in { LastPiece(rest) \o << stem[Len(stem)] >> :
                          rest \in { SubSeq(stem, 1, Len(stem) - 1) } } : TRUE

\* the (id_, yyyy, mm, token) process_task derives for a member of task t
MemberKey(t, m) ==
    IF m.matched
    THEN [id |-> m.id, yyyy |-> m.yyyy, mm |-> m.mm, token |-> sanitize_token(m.table)]
    ELSE [id |-> t.id, yyyy |-> t.yyyy, mm |-> t.mm,
          token |-> sanitize_token(LastPiece(m.stem))]

\* --- manifest ---
ManifestRow(status, attempts, error, zip_path, zip_sha256) ==
    [status |-> status, attempts |-> attempts, error |-> error,
     zip_path |-> zip_path, zip_sha256 |-> zip_sha256]

\* set_status that keeps a recorded path and hash when none is passed
set_status_keep_artifact(man, t, status, error, zip_path, zip_sha256) ==
    LET attempts == (IF t \in DOMAIN man THEN man[t].attempts ELSE 0) + 1
    IN  (t :> ManifestRow(status, attempts, error,
                          IF t \in DOMAIN man /\ zip_path = NoPath
                          THEN man[t].zip_path ELSE zip_path,
                          IF t \in DOMAIN man /\ zip_path = NoPath
                          THEN man[t].zip_sha256 ELSE zip_sha256)) @@ man

\* the timestamp columns of the same upsert: created_at = updated_at = now
\* for a new row; ON CONFLICT ... DO UPDATE SET ... updated_at =
\* excluded.updated_at, created_at not being in the SET list
set_status_stamps(st, t, now) ==
    (t :> [created_at |-> IF t \in DOMAIN st THEN st[t].created_at ELSE now,
           updated_at |-> now]) @@ st

\* set_status: upsert of task t's row, attempts bumped by one
set_status(man, t, status, error, zip_path, zip_sha256) ==
    LET attempts == (IF t \in DOMAIN man THEN man[t].attempts ELSE 0) + 1
    IN  (t :> ManifestRow(status, attempts, error, zip_path, zip_sha256)) @@ man

\* already_ok that never reports a task complete
already_ok_never(man, fs, t) == FALSE

\* already_ok that trusts the recorded status alone
already_ok_status_only(man, fs, t) ==
    /\ t \in DOMAIN man
    /\ man[t].status = "ok"

\* already_ok: the row exists, its status is ok, a path is recorded and that
\* path exists on disk
already_ok(man, fs, t) ==
    /\ t \in DOMAIN man
    /\ man[t].status = "ok"
    /\ man[t].zip_path # NoPath
    /\ man[t].zip_path \in DOMAIN fs

(***************************************************************************)
(* Phase two (phase2_load.py): pure operators                              *)
(***************************************************************************)

\* Python's None / SQL NULL / JSON null
None == << "<None>" >>

AllDigits(s) == \A i \in 1..Len(s) : IsDigit(s[i])

\* the text after an optional leading sign:  [-+]?
Unsigned(v) == IF v # << >> /\ v[1] \in {"-", "+"} THEN Tail(v) ELSE v

\* re.fullmatch(r"[-+]?\d+", v)
MatchesInt(v) ==
    \E u \in { Unsigned(v) } : u # << >> /\ AllDigits(u)

\* re.fullmatch(r"[-+]?\d+(\.\d+)?", v)
MatchesNum(v) ==
    \E u \in { Unsigned(v) } :
        \/ u # << >> /\ AllDigits(u)
        \/ \E i \in 2..(Len(u) - 1) :
              /\ u[i] = "."
              /\ AllDigits(SubSeq(u, 1, i - 1))
              /\ AllDigits(SubSeq(u, i + 1, Len(u)))

\* index of the first occurrence of character sep in s (s contains it)
FirstOf(s, sep) ==
    CHOOSE k \in 1..Len(s) : s[k] = sep /\ \A j \in 1..(k - 1) : s[j] # sep

\* s.split(sep) for a one-character separator
RECURSIVE Split(_, _)
Split(s, sep) ==
    IF \A i \in 1..Len(s) : s[i] # sep THEN << s >>
    ELSE CHOOSE r \in { << SubSeq(s, 1, i - 1) >> \o rest :
                         i \in { FirstOf(s, sep) },
                         rest \in { Split(SubSeq(s, FirstOf(s, sep) + 1, Len(s)), sep) } } : TRUE

\* --- datetime.strptime: the fields of the four formats infer_type tries ---
\* %Y  \d\d\d\d
YearField(s) == Len(s) = 4 /\ AllDigits(s)

\* %m  1[0-2]|0[1-9]|[1-9]
MonthField(s) == Len(s) \in {1, 2} /\ AllDigits(s) /\ ParseInt(s) \in 1..12

\* %d  3[0-1]|[1-2]\d|0[1-9]|[1-9]| [1-9]
DayField(s) ==
    \/ Len(s) \in {1, 2} /\ AllDigits(s) /\ ParseInt(s) \in 1..31
    \/ Len(s) = 2 /\ s[1] = " " /\ IsDigit(s[2]) /\ s[2] # "0"

DayValue(s) == IF s[1] = " " THEN ParseInt(Tail(s)) ELSE ParseInt(s)

\* %H  2[0-3]|[0-1]\d|\d
HourField(s) == Len(s) \in {1, 2} /\ AllDigits(s) /\ ParseInt(s) \in 0..23

\* %M  [0-5]\d|\d ;  %S  6[0-1]|[0-5]\d|\d, of which datetime() accepts 0..59
MinSecField(s) == Len(s) \in {1, 2} /\ AllDigits(s) /\ ParseInt(s) \in 0..59

IsLeap(y) == (y % 4 = 0 /\ y % 100 # 0) \/ y % 400 = 0

DaysIn(y, m) ==
    IF m = 2 THEN (IF IsLeap(y) THEN 29 ELSE 28)
    ELSE IF m \in {4, 6, 9, 11} THEN 30 ELSE 31

\* datetime(year, month, day) accepts the date (MINYEAR is 1)
ValidDate(ys, ms, ds) ==
    /\ YearField(ys) /\ MonthField(ms) /\ DayField(ds)
    /\ ParseInt(ys) >= 1
    /\ DayValue(ds) <= DaysIn(ParseInt(ys), ParseInt(ms))

\* "%Y-%m-%d" (sep "-") and "%Y/%m/%d" (sep "/")
MatchesYmd(v, sep) ==
    \E p \in { Split(v, sep) } : Len(p) = 3 /\ ValidDate(p[1], p[2], p[3])

\* "%d/%m/%Y"
MatchesDmy(v) ==
    \E p \in { Split(v, "/") } : Len(p) = 3 /\ ValidDate(p[3], p[2], p[1])

\* the %d field that starts text s: " [1-9]" or the leading run of digits
LeadingDay(s) ==
    IF s = << >> THEN << >>
    ELSE IF s[1] = " " THEN (IF Len(s) >= 2 THEN SubSeq(s, 1, 2) ELSE << >>)
    ELSE SubSeq(s, 1, CHOOSE n \in 0..Len(s) :
                          /\ AllDigits(SubSeq(s, 1, n))
                          /\ (n < Len(s) => ~ IsDigit(s[n + 1])))

\* s without its leading blanks (the format's blank matches \s+)
RECURSIVE LStrip(_)
LStrip(s) == IF s # << >> /\ s[1] = " " THEN LStrip(Tail(s)) ELSE s

\* "%H:%M:%S"
MatchesHms(v) ==
    \E p \in { Split(v, ":") } :
        Len(p) = 3 /\ HourField(p[1]) /\ MinSecField(p[2]) /\ MinSecField(p[3])

\* "%Y-%m-%d %H:%M:%S"
MatchesYmdHms(v) ==
    \E p \in { Split(v, "-") } :
        /\ Len(p) = 3
        /\ \E d \in { LeadingDay(p[3]) } :
              /\ d # << >> /\ Len(d) <= Len(p[3])
              /\ ValidDate(p[1], p[2], d)
              /\ \E after \in { SubSeq(p[3], Len(d) + 1, Len(p[3])) } :
                    /\ after # << >> /\ after[1] = " "
                    /\ MatchesHms(LStrip(after))

\* the value parses under one of the formats
\* ("%Y-%m-%d", "%Y-%m-%d %H:%M:%S", "%Y/%m/%d", "%d/%m/%Y")
MatchesDate(v) ==
    \/ MatchesYmd(v, "-")
    \/ MatchesYmdHms(v)
    \/ MatchesYmd(v, "/")
    \/ MatchesDmy(v)

\* the loop with flags that are set anew by every value: the last
\* non-empty value decides
RECURSIVE InferLoopLastWins(_, _, _, _, _)
InferLoopLastWins(values, i, ints, nums, dates) ==
    IF i > Len(values)
    THEN (IF ints THEN "bigint" ELSE IF nums THEN "numeric"
          ELSE IF dates THEN "timestamp" ELSE "text")
    ELSE IF values[i] = << >> \/ values[i] = None
    THEN InferLoopLastWins(values, i + 1, ints, nums, dates)
    ELSE InferLoopLastWins(values, i + 1, MatchesInt(values[i]),
                           MatchesNum(values[i]), MatchesDate(values[i]))

\* the loop of infer_type from value i on, with its three flags
RECURSIVE InferLoop(_, _, _, _, _)
InferLoop(values, i, ints, nums, dates) ==
    IF i > Len(values)
    THEN (IF ints THEN "bigint" ELSE IF nums THEN "numeric"
          ELSE IF dates THEN "timestamp" ELSE "text")
    ELSE IF values[i] = << >> \/ values[i] = None
    THEN InferLoop(values, i + 1, ints, nums, dates)
    ELSE CHOOSE r \in
            { IF ~ (i2 \/ n2 \/ d2) THEN "text"
              ELSE InferLoop(values, i + 1, i2, n2, d2) :
              i2 \in { ints /\ MatchesInt(values[i]) },
              n2 \in { nums /\ MatchesNum(values[i]) },
              d2 \in { dates /\ MatchesDate(values[i]) } } : TRUE

\* infer_type(values): "text" for an empty sample, else the loop's verdict
infer_type(values) ==
    IF values = << >> THEN "text" ELSE InferLoop(values, 1, TRUE, TRUE, TRUE)

\* the columns every canonical table is created with
ReservedKeys ==
    { << "s", "r", "c", "_", "f", "i", "l", "e", "_", "i", "d" >>,
      << "s", "r", "c", "_", "r", "o", "w", "_", "n", "u", "m" >>,
      << "b", "a", "t", "c", "h", "_", "i", "d" >>,
      << "e", "n", "t", "i", "t", "y", "_", "i", "d" >>,
      << "y", "y", "y", "y" >>,
      << "m", "m" >> }

\* file_sha256(p): the digest stands for the content it was computed from
file_sha256(content) == [digest_of |-> content]

\* parse_path(p) succeeds: the pieces after "normalized" are
\* table/id/yyyy/mm/filename and int() accepts yyyy and mm
ParsesAsInt(s) == s # << >> /\ AllDigits(s)

parse_path_ok(p) == ParsesAsInt(p.yyyy) /\ ParsesAsInt(p.mm)

\* (table_name, entity_id, yyyy, mm, filename) of a path that parses
parse_path(p) ==
    [table_name |-> p.bucket, entity_id |-> p.id, yyyy |-> ParseInt(p.yyyy),
     mm |-> ParseInt(p.mm), filename |-> p.name]

\* Path ordering used by files.sort(): piece by piece, each in code point order
PathPieces(p) == << p.bucket, p.id, p.yyyy, p.mm, p.name >>

RECURSIVE PiecesLess(_, _)
PiecesLess(a, b) ==
    IF a = << >> \/ b = << >> THEN a = << >> /\ b # << >>
    ELSE IF a[1] = b[1] THEN PiecesLess(Tail(a), Tail(b))
    ELSE StrLess(a[1], b[1])

\* files = list(BASE.rglob("*.csv")); files.sort()
RECURSIVE SortedPaths(_)
SortedPaths(S) ==
    IF S = {} THEN << >>
    ELSE CHOOSE r \in { << first >> \o SortedPaths(S \ {first}) :
                         first \in { CHOOSE x \in S : \A y \in S \ {x} :
                                        PiecesLess(PathPieces(x), PathPieces(y)) } } : TRUE

\* --- the store ---
\* lineage.batches, lineage.files, staging.rows, lineage.schema_registry and
\* the canonical tables public.<table_name> (columns added by ensure_columns,
\* and rows).  Serial row ids of staging.rows and timestamps are read by no
\* code and are left out.
EmptyStore ==
    [batches |-> << >>, files |-> << >>, staging |-> << >>,
     registry |-> << >>, tables |-> << >>]

\* a run that does not record its batch
InsertBatchSkipped(d, batch_id) == d

\* INSERT INTO lineage.batches(batch_id) VALUES (%s)
InsertBatch(d, batch_id) ==
    [d EXCEPT !.batches = (batch_id :> [ended |-> FALSE]) @@ @]

\* UPDATE lineage.batches SET ended_at=now() WHERE batch_id=%s
EndBatch(d, batch_id) ==
    [d EXCEPT !.batches =
        [b \in DOMAIN @ |-> IF b = batch_id THEN [ended |-> TRUE] ELSE @[b]]]

\* register_file without ON CONFLICT (file_sha256) DO NOTHING and without
\* the UNIQUE constraint behind it
register_file_always_insert(d, next_id, rel_path, meta, sha256) ==
    [db |-> [d EXCEPT !.files =
                Append(@, [file_id |-> next_id, rel_path |-> rel_path,
                           table_name |-> meta.table_name,
                           entity_id |-> meta.entity_id,
                           yyyy |-> meta.yyyy, mm |-> meta.mm,
                           filename |-> meta.filename,
                           file_sha256 |-> sha256])],
     file_id |-> next_id]

\* register_file: INSERT ... ON CONFLICT (file_sha256) DO NOTHING RETURNING
\* file_id, else SELECT file_id ... WHERE file_sha256=%s.  next_id is the
\* value the bigserial hands out for this INSERT.
register_file(d, next_id, rel_path, meta, sha256) ==
    IF \E i \in 1..Len(d.files) : d.files[i].file_sha256 = sha256
    THEN [db |-> d,
          file_id |-> d.files[CHOOSE i \in 1..Len(d.files) :
                                  d.files[i].file_sha256 = sha256].file_id]
    ELSE [db |-> [d EXCEPT !.files =
                     Append(@, [file_id |-> next_id, rel_path |-> rel_path,
                                table_name |-> meta.table_name,
                                entity_id |-> meta.entity_id,
                                yyyy |-> meta.yyyy, mm |-> meta.mm,
                                filename |-> meta.filename,
                                file_sha256 |-> sha256])],
          file_id |-> next_id]

\* SELECT 1 FROM staging.rows WHERE file_id=%s LIMIT 1
HasStaged(d, file_id) ==
    \E i \in 1..Len(d.staging) : d.staging[i].file_id = file_id

\* csv.DictReader: the first row gives the field names; a data row becomes a
\* dict from field name to cell (a repeated name keeps its last cell, a
\* missing cell is None); rows without cells are skipped.
LastIndex(header, k) ==
    CHOOSE i \in 1..Len(header) :
        header[i] = k /\ \A i2 \in (i + 1)..Len(header) : header[i2] # k

DictRecord(header, row) ==
    [k \in { header[i] : i \in 1..Len(header) } |->
        IF LastIndex(header, k) <= Len(row) THEN row[LastIndex(header, k)] ELSE None]

\* the records csv.DictReader yields for a file, in file order
DataRows(content) == SelectSeq(Tail(content), LAMBDA row : row # << >>)

DictRows(content) ==
    [i \in 1..Len(DataRows(content)) |-> DictRecord(content[1], DataRows(content)[i])]

\* the tuple appended for record i:
\* (file_id, i, table_name, entity_id, yyyy, mm, json.dumps(rec))
StagingRow(file_id, i, meta, rec) ==
    [file_id |-> file_id, row_num |-> i,
     table_name |-> meta.table_name, entity_id |-> meta.entity_id,
     yyyy |-> meta.yyyy, mm |-> meta.mm, rec |-> rec]

\* extras.execute_values(cur, "INSERT INTO staging.rows(...) VALUES %s", rows)
InsertStaging(d, rows) == [d EXCEPT !.staging = @ \o rows]

\* len(rows) >= 10_000
BatchRows == 10000

\* the loop without the  if rows:  flush after it
RECURSIVE StageLoopNoFinalFlush(_, _, _, _, _, _, _, _)
StageLoopNoFinalFlush(d, file_id, meta, recs, i, rows, count, batch) ==
    IF i > Len(recs)
    THEN [db |-> d, count |-> count]
    ELSE CHOOSE r \in
            { IF Len(rows2) >= batch
              THEN StageLoopNoFinalFlush(InsertStaging(d, rows2), file_id, meta, recs,
                                         i + 1, << >>, count + Len(rows2), batch)
              ELSE StageLoopNoFinalFlush(d, file_id, meta, recs, i + 1, rows2, count,
                                         batch) :
              rows2 \in { Append(rows, StagingRow(file_id, i, meta, recs[i])) } } : TRUE

\* for i, rec in enumerate(reader, start=1): from record i on, with the
\* pending list rows and count; a list that reached batch rows is
\* inserted and cleared; after the loop what is pending is inserted
RECURSIVE StageLoop(_, _, _, _, _, _, _, _)
StageLoop(d, file_id, meta, recs, i, rows, count, batch) ==
    IF i > Len(recs)
    THEN (IF rows # << >>
          THEN [db |-> InsertStaging(d, rows), count |-> count + Len(rows)]
          ELSE [db |-> d, count |-> count])
    ELSE CHOOSE r \in
            { IF Len(rows2) >= batch
              THEN StageLoop(InsertStaging(d, rows2), file_id, meta, recs,
                             i + 1, << >>, count + Len(rows2), batch)
              ELSE StageLoop(d, file_id, meta, recs, i + 1, rows2, count, batch) :
              rows2 \in { Append(rows, StagingRow(file_id, i, meta, recs[i])) } } : TRUE

\* load_csv_to_staging with batches of batch rows: the store and the
\* returned count
load_csv_to_staging_batched(d, file_id, meta, content, batch) ==
    CHOOSE r \in { StageLoop(d, file_id, meta, recs, 1, << >>, 0, batch) :
                     recs \in { DictRows(content) } } : TRUE

\* load_csv_to_staging: the store after it
load_csv_to_staging(d, file_id, meta, content) ==
    load_csv_to_staging_batched(d, file_id, meta, content, BatchRows).db

\* SELECT ... FROM staging.rows WHERE file_id = %s
StagedOf(d, file_id) == SelectSeq(d.staging, LAMBDA r : r.file_id = file_id)

\* CREATE TABLE IF NOT EXISTS public.<table_name> (... six columns ...)
ensure_canonical_table(d, table_name) ==
    IF table_name \in DOMAIN d.tables THEN d
    ELSE [d EXCEPT !.tables = (table_name :> [cols |-> << >>, rows |-> << >>]) @@ @]

\* SELECT DISTINCT key FROM staging.rows, LATERAL jsonb_object_keys(rec)
discover_keys_for_file(d, file_id) ==
    UNION { DOMAIN StagedOf(d, file_id)[i].rec : i \in 1..Len(StagedOf(d, file_id)) }

\* LIMIT 500
SampleLimit == 500

\* the sample of one key: rec ->> key of at most SampleLimit rows that have
\* the key, without the NULLs
SampleOf(rows, k) ==
    SelectSeq(
        [i \in 1..Len(rows) |-> rows[i].rec[k]],
        LAMBDA v : v # None)

sample_types_for_keys(d, file_id, keys) ==
    [k \in keys |->
        LET having  == SelectSeq(StagedOf(d, file_id), LAMBDA r : k \in DOMAIN r.rec)
            limited == SubSeq(having, 1, IF Len(having) < SampleLimit
                                         THEN Len(having) ELSE SampleLimit)
        IN  infer_type(SampleOf(limited, k))]

\* INSERT INTO lineage.schema_registry ... VALUES (table, key, dt, version)
\* ON CONFLICT (table_name,column_name) DO UPDATE SET data_type=EXCLUDED.data_type
\* for every key of added; version is the local  version = 1
RegistryUpsert(registry, table_name, added, sample_types) ==
    [p \in DOMAIN registry \cup { << table_name, k >> : k \in added } |->
        IF p \in DOMAIN registry
        THEN IF p[1] = table_name /\ p[2] \in added
             THEN [registry[p] EXCEPT !.data_type = sample_types[p[2]]]
             ELSE registry[p]
        ELSE [data_type |-> sample_types[p[2]], version |-> 1]]

\* ensure_columns with the test  key not in existing  left out: every
\* non-reserved key of the file is added and recorded again
ensure_columns_every_key(d, table_name, keys, sample_types, sql_bound, fmt_in_order) ==
    IF keys \subseteq ReservedKeys
    THEN [exc |-> "none", db |-> d]
    ELSE IF ~ sql_bound THEN [exc |-> "AttributeError", db |-> d]
    ELSE IF ~ fmt_in_order THEN [exc |-> "KeyError", db |-> d]
    ELSE [exc |-> "none",
          db |-> [d EXCEPT
                    !.tables[table_name].cols =
                        [k \in keys \ ReservedKeys |-> sample_types[k]] @@ @,
                    !.registry = RegistryUpsert(@, table_name, keys \ ReservedKeys,
                                                sample_types)]]

\* ensure_columns: for each key that is neither one of the six base columns
\* nor an existing column, ALTER TABLE ... ADD COLUMN key dt and the
\* registry upsert, dt being the type inferred from this file's sample.
\* The ALTER statement is built with
\* psycopg2.sql.SQL("... {t} ... {c} {}").format(<three positional
\* arguments>).  psycopg2.sql is bound or not (sql_bound, see
\* merge_file_into_canonical: AttributeError if not).  SQL.format looks the
\* named fields {t} and {c} up among the keyword arguments, of which there
\* are none, and raises KeyError before any statement is sent; a format
\* that fills the three fields in order builds the statement.  Which of
\* the two the installed library does is the parameter fmt_in_order.
\* With no such key nothing is done.
ensure_columns(d, table_name, keys, sample_types, sql_bound, fmt_in_order) ==
    LET added == { k \in keys : k \notin ReservedKeys
                                 /\ k \notin DOMAIN d.tables[table_name].cols }
    IN  IF added = {}
        THEN [exc |-> "none", db |-> d]
        ELSE IF ~ sql_bound THEN [exc |-> "AttributeError", db |-> d]
        ELSE IF ~ fmt_in_order THEN [exc |-> "KeyError", db |-> d]
        ELSE [exc |-> "none",
              db |-> [d EXCEPT
                        !.tables[table_name].cols =
                            [k \in added |-> sample_types[k]] @@ @,
                        !.registry = RegistryUpsert(@, table_name, added,
                                                    sample_types)]]

\* str(extras.Json(c)): the SQL literal of json.dumps(c), i.e. the key in
\* double quotes;  rec ->> that  looks up the key with the quotes in it
JsonKey(c) == << "\"" >> \o c \o << "\"" >>

JsonText(rec, key) == IF key \in DOMAIN rec THEN rec[key] ELSE None

\* PostgreSQL accepts text v as input of the type (DateStyle ISO, MDY)
CastOk(v, type) ==
    IF type = "bigint" THEN MatchesInt(v)
    ELSE IF type = "numeric" THEN MatchesNum(v)
    ELSE IF type = "timestamp"
    THEN \/ MatchesYmd(v, "-") \/ MatchesYmdHms(v) \/ MatchesYmd(v, "/")
         \/ \E p \in { Split(v, "/") } : Len(p) = 3 /\ ValidDate(p[3], p[1], p[2])
    ELSE TRUE

\* an expression of type from can be stored in a column of type to
\* (same type, or an assignment cast exists)
AssignOk(from, to) ==
    \/ from = to
    \/ to = "text"
    \/ {from, to} \subseteq {"bigint", "numeric"}

\* the INSERT ... SELECT of merge_file_into_canonical for the columns cols
InsertFromStaging(d, table_name, file_id, batch_id, cols, sample_types) ==
    IF \/ \E c \in cols : ~ AssignOk(sample_types[c], d.tables[table_name].cols[c])
       \/ \E i \in 1..Len(StagedOf(d, file_id)) : \E c \in cols :
              \E v \in { JsonText(StagedOf(d, file_id)[i].rec, JsonKey(c)) } :
                  v # None /\ ~ CastOk(v, sample_types[c])
    THEN [exc |-> "DataError", db |-> d]
    ELSE [exc |-> "none",
          db |-> [d EXCEPT !.tables[table_name].rows =
                    @ \o [i \in 1..Len(StagedOf(d, file_id)) |->
                            [src_file_id |-> StagedOf(d, file_id)[i].file_id,
                             src_row_num |-> StagedOf(d, file_id)[i].row_num,
                             batch_id |-> batch_id,
                             entity_id |-> StagedOf(d, file_id)[i].entity_id,
                             yyyy |-> StagedOf(d, file_id)[i].yyyy,
                             mm |-> StagedOf(d, file_id)[i].mm,
                             vals |-> [c \in cols |->
                                         << sample_types[c],
                                            JsonText(StagedOf(d, file_id)[i].rec,
                                                     JsonKey(c)) >>]]]]]

\* merge_file_into_canonical(cur, table_name, file_id, batch_id).
\* sql_bound: the attribute psycopg2.sql exists in this process (the module
\* imports psycopg2 and psycopg2.extras only; execute_values imports
\* psycopg2.sql when it is first called).
merge_file_into_canonical(d, table_name, file_id, batch_id, sql_bound, fmt_in_order) ==
    LET keys         == discover_keys_for_file(d, file_id)
        sample_types == sample_types_for_keys(d, file_id, keys)
        ec           == ensure_columns(d, table_name, keys, sample_types,
                                       sql_bound, fmt_in_order)
    IN  IF ec.exc # "none" THEN ec
        ELSE IF ~ sql_bound THEN [exc |-> "AttributeError", db |-> d]
        ELSE InsertFromStaging(ec.db, table_name, file_id, batch_id,
                               keys \ ReservedKeys, sample_types)

\* --- normalized trees the loader is run over ---
TreeFile(bucket_idx, id_num, yyyy, mm, stem) ==
    NormPath(CanonicalName(bucket_idx), ZeroPad(id_num, 5), yyyy, mm, stem)

\* rows whose only column carries the name of a base column
RowsYyyy == << << << "y", "y", "y", "y" >> >>,
               << << "2", "0", "1", "0" >> >>, << << "2", "0", "1", "1" >> >> >>

\* columns b and c: b infers to text, c to numeric
RowsBC == << << << "b" >>, << "c" >> >>, << << "x" >>, << "1", ".", "5" >> >> >>

\* column b alone, inferring to numeric
RowsB == << << << "b" >> >>, << << "1", ".", "5" >> >> >>

\* a header and no data row
RowsHeaderOnly == << << << "m", "m" >> >> >>

\* a file outside the year/month layout:  .../table_01/00001/x/01/c.csv
StrayPath ==
    [bucket |-> CanonicalName(1), id |-> ZeroPad(1, 5), yyyy |-> << "x" >>,
     mm |-> ZeroPad(1, 2), name |-> << "c", ".", "c", "s", "v" >>]

\* the files a tree of the model is made of: path and content
TreeFiles ==
    { << TreeFile(1, 1, 2010, 1, << "a" >>), RowsYyyy >>,
      << TreeFile(1, 1, 2010, 2, << "a" >>), RowsYyyy >>,
      << TreeFile(2, 2, 2010, 1, << "a" >>), RowsYyyy >>,
      << TreeFile(2, 1, 2010, 1, << "b" >>), Rows1 >>,
      << TreeFile(2, 1, 2010, 2, << "b" >>), RowsBC >>,
      << TreeFile(2, 1, 2010, 3, << "b" >>), RowsB >>,
      << TreeFile(2, 2, 2010, 1, << "e" >>), RowsHeaderOnly >>,
      << StrayPath, Rows2 >> }

MaxTreeFiles == 2

\* the trees: MaxTreeFiles or fewer (at least one) of these files
LoaderTrees ==
    { [p \in { f[1] : f \in fs } |-> (CHOOSE f \in fs : f[1] = p)[2]] :
        fs \in { x \in SUBSET TreeFiles : Cardinality(x) \in 1..MaxTreeFiles } }

(***************************************************************************)
(* State                                                                   *)
(***************************************************************************)
VARIABLES
    types,      \* the types table (manifest.sqlite3)
    call,       \* the last get_or_alloc_type call: its token, result, exception
    workers,    \* concurrent resolvers: each one's position in get_or_alloc_type
    manifest,   \* the manifest table: task -> row
    rawfs,      \* files under data/raw: path -> bytes
    norm,       \* files under data/normalized: path -> rows
    upstream,   \* the archive the source serves for each task
    pos,        \* main: index of the next task of the run
    pc,         \* process_task: the statement about to run
    buf,        \* process_task: the downloaded bytes
    mi,         \* process_task: index of the next archive member
    raised,     \* the exception text the last statement raised, or "none"
    db,         \* the store as committed
    tx,         \* the store as the loader's open transaction sees it
    file_seq,   \* next value of the bigserial of lineage.files
    sql_bound,  \* the loader process has psycopg2.sql bound
    fmt_in_order, \* SQL.format of the installed psycopg2 fills {t}, {c}, {} in order
    attempt,    \* download_zip: the loop variable attempt
    last_err,   \* download_zip: last_err
    values,     \* infer_type: the sample it is called with
    inferred,   \* infer_type: the value it returned
    batch_size, \* load_csv_to_staging: rows per execute_values call
    staged,     \* load_csv_to_staging: the count it returned
    stamps,     \* the manifest table: task -> created_at, updated_at
    st_call,    \* the last process_task call: what it passed to set_status
    cfg,        \* main: IDS, START_YM, END_YM and MAX_TASKS of the run
    done,       \* main: the tasks process_task was called with, in order
    tok,        \* process_task, get_or_alloc_type: the local  token
    lpc,        \* run(): where the loader is
    lfiles,     \* run(): the sorted list of files
    li,         \* run(): index of the current file
    lcur,       \* run(): file id and path fields of the current file
    batch_id,   \* run(): the batch id of the current run
    runs,       \* loader runs started so far
    lraised     \* the exception that ended the last loader run, or "none"

p1vars == << manifest, rawfs, norm, upstream, pos, pc, buf, mi, raised >>

p2vars == << db, tx, file_seq, sql_bound, fmt_in_order, lpc, lfiles, li, lcur, batch_id, runs, lraised >>

\* locals of download_zip, infer_type and load_csv_to_staging; the
\* timestamp columns of the manifest and the arguments of set_status
locals == << attempt, last_err, values, inferred, batch_size, staged, stamps, st_call, cfg, done, tok >>

vars == << types, call, workers, manifest, rawfs, norm, upstream, pos, pc, buf, mi, raised,
           db, tx, file_seq, sql_bound, fmt_in_order, lpc, lfiles, li, lcur, batch_id, runs, lraised,
           attempt, last_err, values, inferred, batch_size, staged, stamps, st_call, cfg, done, tok >>

\* phase one at rest, for the specifications that do not run it
P1Unused ==
    /\ manifest = << >>
    /\ rawfs = << >>
    /\ norm = << >>
    /\ upstream = << >>
    /\ pos = 1
    /\ pc = "idle"
    /\ buf = NoBuf
    /\ mi = 0
    /\ raised = "none"

NoFile == [file_id |-> 0]

NoStatusCall == [t |-> NoValue, status |-> "none"]

NoConfig == [ids |-> << >>, start |-> << 0, 1 >>, end |-> << 0, 1 >>, max_tasks |-> 0]

\* outside the three functions: no call under way
LocalsUnused ==
    /\ attempt = 0
    /\ last_err = "none"
    /\ values = << >>
    /\ inferred = "unset"
    /\ batch_size = 0
    /\ staged = 0
    /\ stamps = << >>
    /\ st_call = NoStatusCall
    /\ cfg = NoConfig
    /\ done = << >>
    /\ tok = NoValue

\* phase two before its first run: the store as ensure_base creates it
P2Unused ==
    /\ db = EmptyStore
    /\ tx = EmptyStore
    /\ file_seq = 1
    /\ sql_bound = FALSE
    /\ fmt_in_order = FALSE
    /\ lpc = "idle"
    /\ lfiles = << >>
    /\ li = 0
    /\ lcur = NoFile
    /\ batch_id = 0
    /\ runs = 0
    /\ lraised = "none"

NoCall == [raw |-> NoValue, token |-> NoValue, ret |-> NoValue, exc |-> "none"]

(***************************************************************************)
(* Registry specification: one resolver, any number of tokens              *)
(***************************************************************************)

\* number of distinct tokens offered to the registry
MaxTokens == 102

\* how many of the oldest and of the newest known tokens are resolved again
Probe == 2

\* The k-th distinct token, and raw spellings of it with the same sanitized form
TokenName(k) == << "k" >> \o Dec(k)

RawForms(k) ==
    { TokenName(k),
      << "K" >> \o Dec(k),
      << "-", "k" >> \o Dec(k) \o << "." >> }

\* Tokens a call may carry: a known one (among the oldest and newest), or the
\* next unseen one.
Offered(tbl) ==
    { k \in 1..Len(tbl) : k <= Probe \/ k > Len(tbl) - Probe }
    \cup (IF Len(tbl) < MaxTokens THEN { Len(tbl) + 1 } ELSE {})

Resolve(raw) ==
    \E r \in { GetOrAllocResult(types, raw) } :
        /\ types' = r.tbl
        /\ call' = [raw |-> raw, token |-> r.token, ret |-> r.ret, exc |-> r.exc]
        /\ UNCHANGED << workers, p1vars, p2vars, locals >>

InitReg ==
    /\ types = << >>
    /\ call = NoCall
    /\ workers = << >>
    /\ P1Unused
    /\ P2Unused
    /\ LocalsUnused

NextReg == \E k \in Offered(types) : \E raw \in RawForms(k) : Resolve(raw)

SpecReg == InitReg /\ [][NextReg]_vars

(***************************************************************************)
(* Race specification: two resolvers sharing the types table.  Each SQL    *)
(* statement is atomic (SQLite serialises writers; the INSERT is committed *)
(* right after it); nothing in get_or_alloc_type spans the statements.     *)
(***************************************************************************)

\* rows already in the table when the race starts
MaxRacePrior == 3

\* tokens the two resolvers draw from
MaxRaceTokens == 4

Workers == {1, 2}

\* the table after tokens lo..hi were resolved one after another on tbl
\* (the range is halved to keep the evaluation shallow; the order is kept)
RECURSIVE ResolveInTurn(_, _, _)
ResolveInTurn(tbl, lo, hi) ==
    IF lo > hi THEN tbl
    ELSE IF lo = hi THEN GetOrAllocResult(tbl, TokenName(lo)).tbl
    ELSE CHOOSE r \in { ResolveInTurn(half, ((lo + hi) \div 2) + 1, hi) :
                          half \in { ResolveInTurn(tbl, lo, (lo + hi) \div 2) } } : TRUE

\* the table after the first n tokens were resolved one after another
TableAfter(n) == ResolveInTurn(<< >>, 1, n)

WorkerStart(raw) ==
    [pc |-> "lookup", raw |-> raw, token |-> NoValue, idx |-> 0,
     ret |-> NoValue, exc |-> "none"]

InitRace ==
    /\ \E n \in 0..MaxRacePrior : types = TableAfter(n)
    /\ call = NoCall
    /\ \E k1, k2 \in 1..MaxRaceTokens :
          workers = << WorkerStart(TokenName(k1)), WorkerStart(TokenName(k2)) >>
    /\ P1Unused
    /\ P2Unused
    /\ LocalsUnused

\* token = sanitize_token(token); SELECT canonical FROM types WHERE token=?;
\* if row: return row[0]
Lookup(w) ==
    /\ workers[w].pc = "lookup"
    /\ \E token \in { sanitize_token(workers[w].raw) } :
          \E hit \in { SelectByToken(types, token) } :
             workers' = [workers EXCEPT ![w] =
                 IF hit # {}
                 THEN [@ EXCEPT !.pc = "done", !.token = token,
                                !.ret = types[CHOOSE i \in hit : TRUE].canonical]
                 ELSE [@ EXCEPT !.pc = "scan", !.token = token]]
    /\ UNCHANGED << types, call, p1vars, p2vars, locals >>

\* SELECT canonical FROM types ORDER BY canonical DESC LIMIT 1; next_idx
ReadHighest(w) ==
    /\ workers[w].pc = "scan"
    /\ workers' = [workers EXCEPT ![w] = [@ EXCEPT !.pc = "insert", !.idx = NextIdx(types)]]
    /\ UNCHANGED << types, call, p1vars, p2vars, locals >>

\* INSERT INTO types ... ; con.commit(); return canonical
Insert(w) ==
    /\ workers[w].pc = "insert"
    /\ \E row \in { TypeRow(workers[w].token, CanonicalName(workers[w].idx),
                              OverflowFlag(workers[w].idx)) } :
          IF TypesConstraintsAllow(types, row)
          THEN /\ types' = Append(types, row)
               /\ workers' = [workers EXCEPT ![w] =
                                 [@ EXCEPT !.pc = "done", !.ret = row.canonical]]
          ELSE /\ types' = types
               /\ workers' = [workers EXCEPT ![w] =
                                 [@ EXCEPT !.pc = "raised", !.exc = "IntegrityError"]]
    /\ UNCHANGED << call, p1vars, p2vars, locals >>

NextRace == \E w \in Workers : Lookup(w) \/ ReadHighest(w) \/ Insert(w)

SpecRace == InitRace /\ [][NextRace]_vars

(***************************************************************************)
(* Phase one specification: main and process_task, one statement group per *)
(* step, with the source's failures (transport, disk) and an external      *)
(* deletion of raw archives as the environment's choices.                  *)
(***************************************************************************)

\* attempts recorded per task after which the model starts no further run
MaxAttempts == 2

\* buckets a registry left by earlier use may already hold
PriorBuckets == 100

NoError == "<None>"

CurTask == AllTasks[pos]

Without(f, x) == [y \in DOMAIN f \ {x} |-> f[y]]

\* process_task without its except clause: the exception ends the run
FailUncaught(err) ==
    /\ manifest' = manifest
    /\ raised' = err
    /\ pos' = pos
    /\ pc' = "aborted"
    /\ buf' = NoBuf
    /\ mi' = 0

\* except Exception as e: set_status(con, t, "failed", error=str(e)); the loop
\* of main then takes the next task
Fail(err) ==
    /\ manifest' = set_status(manifest, CurTask, "failed", err, NoPath, NoSha)
    /\ raised' = err
    /\ pos' = pos + 1
    /\ pc' = "idle"
    /\ buf' = NoBuf
    /\ mi' = 0

\* for t in tasks: ... process_task(con, t): if already_ok(con, t): return
Begin ==
    /\ pc = "idle"
    /\ pos <= RunLength
    /\ IF already_ok(manifest, rawfs, CurTask)
       THEN /\ pos' = pos + 1
            /\ pc' = "idle"
       ELSE /\ pos' = pos
            /\ pc' = "download"
    /\ raised' = "none"
    /\ UNCHANGED << manifest, rawfs, norm, upstream, buf, mi, types, call, workers, p2vars, locals >>

\* buf = download_zip(t); sha = sha256_bytes(buf)
Download ==
    /\ pc = "download"
    /\ \/ /\ buf' = upstream[CurTask]
          /\ pc' = "validate"
          /\ raised' = "none"
          /\ UNCHANGED << manifest, pos, mi >>
       \/ Fail("ConnectionError")
    /\ UNCHANGED << rawfs, norm, upstream, types, call, workers, p2vars, locals >>

\* zf = safe_open_zip(buf)
Validate ==
    /\ pc = "validate"
    /\ \E r \in { safe_open_zip(buf) } :
          IF r = "ok"
          THEN /\ pc' = "write_part"
               /\ raised' = "none"
               /\ UNCHANGED << manifest, pos, buf, mi >>
          ELSE Fail(r)
    /\ UNCHANGED << rawfs, norm, upstream, types, call, workers, p2vars, locals >>

\* raw_dir.mkdir(...); with tmp.open("wb") as f: f.write(buf)
WritePart ==
    /\ pc = "write_part"
    /\ \/ /\ rawfs' = (TmpPath(CurTask) :> buf) @@ rawfs
          /\ pc' = "rename"
          /\ raised' = "none"
          /\ UNCHANGED << manifest, pos, buf, mi >>
       \/ /\ Fail("OSError")
          /\ UNCHANGED rawfs
    /\ UNCHANGED << norm, upstream, types, call, workers, p2vars, locals >>

\* os.replace(tmp, final)
Rename ==
    /\ pc = "rename"
    /\ rawfs' = (FinalPath(CurTask) :> rawfs[TmpPath(CurTask)])
                    @@ Without(rawfs, TmpPath(CurTask))
    /\ pc' = "members"
    /\ mi' = 1
    /\ raised' = "none"
    /\ UNCHANGED << manifest, norm, upstream, pos, buf, types, call, workers, p2vars, locals >>

\* what a file can hold while writerow/writerows are under way, and what an
\* interrupted write leaves: the rows flushed so far
PartialWrites(rows) == { SubSeq(rows, 1, n) : n \in 0..(Len(rows) - 1) }

\* the path normalize_and_write_csv writes member m to, given the bucket
\* get_or_alloc_type returned and the id, year and month derived for m
OutPath(canonical, key, m) ==
    NormPath(canonical, key.id, key.yyyy, key.mm, m.stem)

\* one iteration of  for info in zf.infolist():  a directory entry is
\* skipped; else the token is derived, get_or_alloc_type is called and
\* normalize_and_write_csv is entered: nothing is written when the member
\* has no rows, else out_path.open("w") creates or truncates the file at
\* its final path
NextMember ==
    /\ pc = "members"
    /\ mi <= Len(buf.members)
    /\ \E m \in { buf.members[mi] } :
          IF m.isdir
          THEN /\ mi' = mi + 1
               /\ raised' = "none"
               /\ UNCHANGED << manifest, norm, pos, pc, buf, types, call >>
          ELSE \E key \in { MemberKey(CurTask, m) } :
               \E r \in { GetOrAllocResult(types, key.token) } :
                  /\ types' = r.tbl
                  /\ call' = [raw |-> key.token, token |-> r.token,
                              ret |-> r.ret, exc |-> r.exc]
                  /\ IF r.exc # "none"
                     THEN /\ Fail(r.exc)
                          /\ UNCHANGED norm
                     ELSE IF m.rows = << >>
                     THEN /\ mi' = mi + 1
                          /\ raised' = "none"
                          /\ UNCHANGED << manifest, norm, pos, pc, buf >>
                     ELSE \/ /\ norm' = (OutPath(r.ret, key, m) :> << >>) @@ norm
                             /\ pc' = "write_csv"
                             /\ raised' = "none"
                             /\ UNCHANGED << manifest, pos, mi, buf >>
                          \/ /\ Fail("OSError")
                             /\ UNCHANGED norm
    /\ UNCHANGED << rawfs, upstream, workers, p2vars, locals >>

\* w.writerow(header); w.writerows(rest); the file is closed.  A write that
\* fails leaves the rows flushed until then in the file.
WriteCsv ==
    /\ pc = "write_csv"
    /\ \E m \in { buf.members[mi] } :
       \E key \in { MemberKey(CurTask, m) } :
       \E out_path \in { OutPath(call.ret, key, m) } :
          \/ /\ norm' = (out_path :> m.rows) @@ norm
             /\ mi' = mi + 1
             /\ pc' = "members"
             /\ raised' = "none"
             /\ UNCHANGED << manifest, pos, buf >>
          \/ /\ \E part \in PartialWrites(m.rows) :
                   norm' = (out_path :> part) @@ norm
             /\ Fail("OSError")
    /\ UNCHANGED << rawfs, upstream, types, call, workers, p2vars, locals >>

\* set_status(con, t, "ok", zip_path=str(final), zip_sha256=sha, error=None)
Finish ==
    /\ pc = "members"
    /\ mi > Len(buf.members)
    /\ manifest' = set_status(manifest, CurTask, "ok", NoError,
                               FinalPath(CurTask), sha256_bytes(buf))
    /\ raised' = "none"
    /\ pos' = pos + 1
    /\ pc' = "idle"
    /\ buf' = NoBuf
    /\ mi' = 0
    /\ UNCHANGED << rawfs, norm, upstream, types, call, workers, p2vars, locals >>

\* main returns; the program is started again over the same task set
Restart ==
    /\ pc = "idle"
    /\ pos = RunLength + 1
    /\ \A t \in DOMAIN manifest : manifest[t].attempts < MaxAttempts
    /\ pos' = 1
    /\ raised' = "none"
    /\ UNCHANGED << manifest, rawfs, norm, upstream, pc, buf, mi, types, call, workers, p2vars, locals >>

\* somebody outside the program deletes a raw archive
ExternalDelete ==
    /\ \E path \in DOMAIN rawfs :
          /\ path.name = "source.zip"
          /\ rawfs' = Without(rawfs, path)
    /\ UNCHANGED << manifest, norm, upstream, pos, pc, buf, mi, raised, types, call, workers, p2vars, locals >>

Init ==
    /\ types \in { << >>, TableAfter(PriorBuckets) }
    /\ call = NoCall
    /\ workers = << >>
    /\ manifest = << >>
    /\ rawfs = << >>
    /\ norm = << >>
    /\ upstream \in [RunTasks -> UNION { Catalog(t) : t \in RunTasks }]
    /\ \A t \in RunTasks : upstream[t] \in Catalog(t)
    /\ pos = 1
    /\ pc = "idle"
    /\ buf = NoBuf
    /\ mi = 0
    /\ raised = "none"
    /\ P2Unused
    /\ LocalsUnused

Next ==
    \/ Begin
    \/ Download
    \/ Validate
    \/ WritePart
    \/ Rename
    \/ NextMember
    \/ WriteCsv
    \/ Finish
    \/ Restart
    \/ ExternalDelete

Spec == Init /\ [][Next]_vars

\* The statements of main and process_task run one after another and each
\* one completes (download_zip gives up after MAX_RETRIES attempts): the
\* program does not stop in the middle of a run.
ProgramStep ==
    Begin \/ Download \/ Validate \/ WritePart \/ Rename \/ NextMember \/ WriteCsv
        \/ Finish

SpecFair == Init /\ [][Next]_vars /\ WF_vars(ProgramStep)

(***************************************************************************)
(* Registry properties                                                     *)
(***************************************************************************)

\* the numerically highest bucket index assigned in tbl, 0 when empty
MaxIndex(tbl) ==
    IF tbl = << >> THEN 0
    ELSE LET idxs == { BucketIndex(tbl[i].canonical) : i \in 1..Len(tbl) }
         IN  CHOOSE m \in idxs : \A k \in idxs : k <= m

\* C1 - bucket stability: a call whose raw token sanitizes to a token that is
\* already bound returns the bucket bound to it and leaves the table as it
\* was; rows once written keep their token and bucket, so that bucket is the
\* one recorded at the first resolution.
C1_BucketStability ==
    [][ /\ Len(types') >= Len(types)
        /\ SubSeq(types', 1, Len(types)) = types
        /\ \A hit \in { SelectByToken(types, sanitize_token(call'.raw)) } :
              hit # {}
                 => /\ types' = types
                    /\ call'.exc = "none"
                    /\ \A i \in hit : call'.ret = types[i].canonical
      ]_vars

\* C1 witness: after 30 allocations the oldest token is resolved again under
\* a different raw spelling and gets its bucket table_01.
C1_Witness ==
    /\ Len(types) >= 30
    /\ call.token = types[1].token
    /\ call.raw # call.token
    /\ call.ret = CanonicalName(1)

\* C2 - the mapping is injective and immutable: no two rows share a token or
\* a bucket name, and no step changes or removes a row.
TypesInjective ==
    /\ Cardinality({ types[i].canonical : i \in 1..Len(types) }) = Len(types)
    /\ Cardinality({ types[i].token : i \in 1..Len(types) }) = Len(types)

C2_InjectiveImmutable ==
    /\ []TypesInjective
    /\ [][ /\ Len(types') >= Len(types)
            /\ \A i \in 1..Len(types) :
                  /\ types'[i].token = types[i].token
                  /\ types'[i].canonical = types[i].canonical ]_vars

\* C2 witness: an insert was refused by the table's constraints while the
\* table held many bindings.
C2_Witness ==
    /\ Len(types) >= 2
    /\ call.exc = "IntegrityError"

\* C3 - (the claim) every call for an unbound token succeeds and receives the
\* numerically highest index assigned so far plus one.
C3_ConsecutiveIndices ==
    [][ SelectByToken(types, sanitize_token(call'.raw)) = {}
          => /\ call'.exc = "none"
             /\ call'.ret # NoValue
             /\ BucketIndex(call'.ret) = MaxIndex(types) + 1
             /\ Len(types') = Len(types) + 1
             /\ types'[Len(types')].canonical = call'.ret
      ]_vars

\* C5 - overflow flag: a row is flagged exactly when its bucket index exceeds
\* 25; in allocation order the first 25 rows are unflagged and every later
\* row is flagged.
C5_OverflowFlag ==
    \A i \in 1..Len(types) :
        /\ types[i].overflow = 1 <=> BucketIndex(types[i].canonical) > 25
        /\ types[i].overflow = (IF i > 25 THEN 1 ELSE 0)

\* C5 witness: the 25th row unflagged, the 26th and 27th flagged.
C5_Witness ==
    /\ Len(types) >= 27
    /\ types[25].overflow = 0
    /\ types[26].overflow = 1
    /\ types[27].overflow = 1


\* C4 - (the claim) two resolvers racing on two different unbound tokens
\* both return with a bucket, and the two buckets differ.
C4_RaceBothAllocated ==
    ( /\ \A w \in Workers : workers[w].pc \in {"done", "raised"} /\ workers[w].idx # 0
      /\ workers[1].token # workers[2].token )
    => /\ \A w \in Workers : workers[w].pc = "done" /\ workers[w].ret # NoValue
       /\ workers[1].ret # workers[2].ret


(***************************************************************************)
(* Phase one properties                                                    *)
(***************************************************************************)

\* a step taken by main or process_task (not by the environment)
ProgramMoved == << pc', pos' >> # << pc, pos >>

\* every task of the run is recorded ok and its raw archive is on disk
AllTasksOk ==
    \A t \in RunTasks :
        /\ t \in DOMAIN manifest
        /\ manifest[t].status = "ok"
        /\ FinalPath(t) \in DOMAIN rawfs

\* C6 - idempotent acquisition: once every task is recorded ok with its raw
\* archive on disk, every step the program takes between tasks (so every
\* step of a further run, as long as nobody deletes an archive) leaves the
\* manifest, the raw archives, the normalized files and the types table as
\* they are, and starts no acquisition.
C6_IdempotentRerun ==
    [][ (pc = "idle" /\ AllTasksOk /\ ProgramMoved)
          => /\ manifest' = manifest
             /\ rawfs' = rawfs
             /\ norm' = norm
             /\ types' = types
             /\ pc' = "idle"
      ]_vars

\* C6 witness: a further run has passed its first task while every task is
\* still at its first, successful attempt.
C6_Witness ==
    /\ AllTasksOk
    /\ pc = "idle"
    /\ pos = 2
    /\ \A t \in RunTasks : manifest[t].attempts = 1

\* C7 - already_ok: process_task returns at once (nothing changed, next
\* task) exactly when the task's row has status ok and a recorded archive
\* path that exists on disk; in every other case, a deleted archive under an
\* ok row included, it goes on to acquire the archive.
C7_AlreadyOkExact ==
    [][ (pc = "idle" /\ pos <= RunLength /\ ProgramMoved)
          => IF /\ CurTask \in DOMAIN manifest
                /\ manifest[CurTask].status = "ok"
                /\ manifest[CurTask].zip_path # NoPath
                /\ manifest[CurTask].zip_path \in DOMAIN rawfs
             THEN /\ pc' = "idle"
                  /\ pos' = pos + 1
                  /\ UNCHANGED << manifest, rawfs, norm, types >>
             ELSE /\ pc' = "download"
                  /\ pos' = pos
      ]_vars

\* C7 witness: an acquisition is under way for a task whose row says ok but
\* whose archive is gone.
C7_Witness ==
    /\ pc = "download"
    /\ CurTask \in DOMAIN manifest
    /\ manifest[CurTask].status = "ok"
    /\ manifest[CurTask].zip_path \notin DOMAIN rawfs

\* the bytes lack the ZIP magic, or a member fails its CRC
BadArchive(archive) ==
    \/ ~ archive.magic
    \/ \E i \in 1..Len(archive.members) : ~ archive.members[i].crc_ok

\* C8 - integrity gate: up to and including validation process_task writes
\* no file and allocates no bucket, and on bad magic or a failed CRC it ends
\* there: no member is visited and the task is recorded failed with the
\* error text.
C8_IntegrityGate ==
    [][ /\ (pc \in {"idle", "download", "validate"} /\ ProgramMoved)
            => UNCHANGED << rawfs, norm, types >>
        /\ (pc = "validate" /\ BadArchive(buf) /\ ProgramMoved)
            => /\ pc' = "idle"
               /\ mi' = 0
               /\ pos' = pos + 1
               /\ raised' \in {"Not a ZIP (bad magic bytes)", "ZIP CRC failed for member"}
               /\ CurTask \in DOMAIN manifest'
               /\ manifest'[CurTask].status = "failed"
               /\ manifest'[CurTask].error = raised'
      ]_vars

\* C8 witness: a task was just rejected for a CRC failure and is recorded
\* failed, with no raw archive of it on disk.
C8_Witness ==
    /\ pc = "idle"
    /\ pos > 1
    /\ raised = "ZIP CRC failed for member"
    /\ manifest[AllTasks[pos - 1]].status = "failed"
    /\ FinalPath(AllTasks[pos - 1]) \notin DOMAIN rawfs

RunEnded == pc = "idle" /\ pos = RunLength + 1

\* C9 - failure isolation: a statement of process_task that raises leaves
\* the task recorded failed with the error text (one more attempt, the rows
\* of other tasks untouched) and hands control back to the loop of main,
\* which reaches the end of the run; a task recorded failed is acquired
\* again when a later run comes to it.
C9_FailureIsolation ==
    /\ [][ /\ (raised' # "none" /\ ProgramMoved)
                => /\ pc' = "idle"
                   /\ pos' = pos + 1
                   /\ CurTask \in DOMAIN manifest'
                   /\ manifest'[CurTask].status = "failed"
                   /\ manifest'[CurTask].error = raised'
                   /\ manifest'[CurTask].attempts =
                         (IF CurTask \in DOMAIN manifest
                          THEN manifest[CurTask].attempts ELSE 0) + 1
                   /\ \A t \in DOMAIN manifest \ {CurTask} :
                         t \in DOMAIN manifest' /\ manifest'[t] = manifest[t]
           /\ (/\ pc = "idle" /\ pos <= RunLength /\ ProgramMoved
               /\ CurTask \in DOMAIN manifest
               /\ manifest[CurTask].status = "failed")
                => pc' = "download"
         ]_vars
    /\ [](raised # "none" => <>RunEnded)

\* C9 witness: the first task failed on its only attempt (bucket allocation
\* raised), the run went on to the second task, and a later run is now
\* acquiring the first task again.
C9_Witness ==
    /\ pc = "download"
    /\ pos = 1
    /\ AllTasks[1] \in DOMAIN manifest
    /\ manifest[AllTasks[1]].status = "failed"
    /\ manifest[AllTasks[1]].attempts = 1
    /\ manifest[AllTasks[1]].error = "IntegrityError"
    /\ AllTasks[2] \in DOMAIN manifest


(***************************************************************************)
(* Phase two specification: run() of phase2_load.py, started any number of *)
(* times over a normalized tree that does not change.  Everything between  *)
(* two conn.commit() calls is one transaction; an exception leaves run(),  *)
(* the process ends and the open transaction is rolled back.               *)
(***************************************************************************)

\* loader runs the model starts
MaxRuns == 2

\* conn = pg(); ensure_base(cur); batch_id = uuid.uuid4(); INSERT INTO
\* lineage.batches; files = list(BASE.rglob("*.csv")); files.sort().
\* Whether importing psycopg2.extras binds psycopg2.sql depends on the
\* psycopg2 release.
StartRun ==
    /\ lpc = "idle"
    /\ runs < MaxRuns
    /\ runs' = runs + 1
    /\ batch_id' = runs + 1
    /\ tx' = InsertBatch(db, runs + 1)
    /\ sql_bound' \in BOOLEAN
    /\ fmt_in_order' \in BOOLEAN
    /\ lfiles' = SortedPaths(DOMAIN norm)
    /\ li' = 1
    /\ lcur' = NoFile
    /\ lpc' = "loop"
    /\ lraised' = "none"
    /\ UNCHANGED << db, file_seq, types, call, workers, p1vars, locals >>

\* for csv_path in files: parse_path fails -> continue; else file_sha256,
\* register_file and the look for staged rows of the file id
NextFile ==
    /\ lpc = "loop"
    /\ li <= Len(lfiles)
    /\ IF ~ parse_path_ok(lfiles[li])
       THEN /\ li' = li + 1
            /\ UNCHANGED << tx, file_seq, lcur, lpc >>
       ELSE \E r \in { register_file(tx, file_seq, lfiles[li], parse_path(lfiles[li]),
                                      file_sha256(norm[lfiles[li]])) } :
               /\ tx' = r.db
               /\ file_seq' = file_seq + 1
               /\ lcur' = [file_id |-> r.file_id, path |-> lfiles[li],
                           meta |-> parse_path(lfiles[li])]
               /\ lpc' = IF HasStaged(r.db, r.file_id) THEN "remerge" ELSE "stage"
               /\ li' = li
    /\ UNCHANGED << db, sql_bound, fmt_in_order, lfiles, batch_id, runs, lraised,
                    types, call, workers, p1vars, locals >>

\* staged = load_csv_to_staging(...)   (execute_values, called when there
\* are rows, imports psycopg2.sql)
Stage ==
    /\ lpc = "stage"
    /\ tx' = load_csv_to_staging(tx, lcur.file_id, lcur.meta, norm[lcur.path])
    /\ sql_bound' = (sql_bound \/ DictRows(norm[lcur.path]) # << >>)
    /\ lpc' = "merge"
    /\ UNCHANGED << db, file_seq, fmt_in_order, lfiles, li, lcur, batch_id, runs, lraised,
                    types, call, workers, p1vars, locals >>

\* Merge on a connection in autocommit mode: what was written before the
\* failing statement stays
MergeAutocommit ==
    /\ lpc \in {"merge", "remerge"}
    /\ \E r \in { merge_file_into_canonical(
                      ensure_canonical_table(tx, lcur.meta.table_name),
                      lcur.meta.table_name, lcur.file_id, batch_id, sql_bound,
                      fmt_in_order) } :
          IF r.exc = "none"
          THEN /\ tx' = r.db
               /\ db' = db
               /\ lpc' = "commit"
               /\ lraised' = "none"
          ELSE /\ tx' = tx
               /\ db' = tx
               /\ lpc' = "idle"
               /\ lraised' = r.exc
    /\ UNCHANGED << file_seq, sql_bound, fmt_in_order, lfiles, li, lcur, batch_id, runs,
                    types, call, workers, p1vars, locals >>

\* ensure_canonical_table(cur, table_name); merge_file_into_canonical(...):
\* in the branch taken when staged rows exist, and after staging
Merge ==
    /\ lpc \in {"merge", "remerge"}
    /\ \E r \in { merge_file_into_canonical(
                      ensure_canonical_table(tx, lcur.meta.table_name),
                      lcur.meta.table_name, lcur.file_id, batch_id, sql_bound,
                      fmt_in_order) } :
          IF r.exc = "none"
          THEN /\ tx' = r.db
               /\ lpc' = "commit"
               /\ lraised' = "none"
          ELSE /\ tx' = db
               /\ lpc' = "idle"
               /\ lraised' = r.exc
    /\ UNCHANGED << db, file_seq, sql_bound, fmt_in_order, lfiles, li, lcur, batch_id, runs,
                    types, call, workers, p1vars, locals >>

\* conn.commit(); loaded_files += 1
Commit ==
    /\ lpc = "commit"
    /\ db' = tx
    /\ li' = li + 1
    /\ lpc' = "loop"
    /\ UNCHANGED << tx, file_seq, sql_bound, fmt_in_order, lfiles, lcur, batch_id, runs, lraised,
                    types, call, workers, p1vars, locals >>

\* UPDATE lineage.batches SET ended_at=now(); conn.commit(); close
EndRun ==
    /\ lpc = "loop"
    /\ li > Len(lfiles)
    /\ db' = EndBatch(tx, batch_id)
    /\ tx' = EndBatch(tx, batch_id)
    /\ lpc' = "idle"
    /\ UNCHANGED << file_seq, sql_bound, fmt_in_order, lfiles, li, lcur, batch_id, runs, lraised,
                    types, call, workers, p1vars, locals >>

InitLoad ==
    /\ types = << >>
    /\ call = NoCall
    /\ workers = << >>
    /\ manifest = << >>
    /\ rawfs = << >>
    /\ norm \in LoaderTrees
    /\ upstream = << >>
    /\ pos = 1
    /\ pc = "idle"
    /\ buf = NoBuf
    /\ mi = 0
    /\ raised = "none"
    /\ P2Unused
    /\ LocalsUnused

NextLoad ==
    \/ StartRun
    \/ NextFile
    \/ Stage
    \/ Merge
    \/ Commit
    \/ EndRun

SpecLoad == InitLoad /\ [][NextLoad]_vars

(***************************************************************************)
(* Phase two properties                                                    *)
(***************************************************************************)

\* C10 - re-run guard: after any number of loader runs over an unchanged
\* tree, no canonical table holds two rows with the same source file id
\* and source row number (a file whose id already has staged rows is not
\* merged again).
C10_OneRowPerSource ==
    \A t \in DOMAIN db.tables :
        \A i, j \in 1..Len(db.tables[t].rows) :
            (/\ db.tables[t].rows[i].src_file_id = db.tables[t].rows[j].src_file_id
             /\ db.tables[t].rows[i].src_row_num = db.tables[t].rows[j].src_row_num)
                => i = j


\* the files table holds one record per content hash
OneRecordPerHash(d) ==
    \A i, j \in 1..Len(d.files) :
        d.files[i].file_sha256 = d.files[j].file_sha256 => i = j

\* C11 - register_file is idempotent per content hash: the files table,
\* committed or in the open transaction, never holds two records with the
\* same hash, and registering a hash that has a record returns that
\* record's file id and leaves the files table as it is, whatever path,
\* bucket and entity are passed.
C11_RegisterIdempotent ==
    /\ [](OneRecordPerHash(db) /\ OneRecordPerHash(tx))
    /\ [][ (/\ lpc = "loop" /\ lpc' # "loop"
            /\ li <= Len(lfiles)
            /\ \E i \in 1..Len(tx.files) :
                  tx.files[i].file_sha256 = file_sha256(norm[lfiles[li]]))
             => /\ tx'.files = tx.files
                /\ \E i \in 1..Len(tx.files) :
                      /\ tx.files[i].file_sha256 = file_sha256(norm[lfiles[li]])
                      /\ lcur'.file_id = tx.files[i].file_id
         ]_vars

\* C11 witness: the current file was given the id of a record that was
\* registered under another path, bucket and entity.
C11_Witness ==
    /\ lpc = "remerge"
    /\ \E i \in 1..Len(tx.files) :
          /\ tx.files[i].file_id = lcur.file_id
          /\ tx.files[i].rel_path # lcur.path
          /\ tx.files[i].table_name # lcur.meta.table_name
          /\ tx.files[i].entity_id # lcur.meta.entity_id


\* every canonical row of d has its source file in lineage.files and its
\* batch in lineage.batches
LineageComplete(d) ==
    \A t \in DOMAIN d.tables :
        \A i \in 1..Len(d.tables[t].rows) :
            /\ \E f \in 1..Len(d.files) :
                  d.files[f].file_id = d.tables[t].rows[i].src_file_id
            /\ d.tables[t].rows[i].batch_id \in DOMAIN d.batches

\* C12 - lineage completeness: in every committed state of the store, also
\* after a loader run that aborted partway, every row of every canonical
\* table references a file id present in lineage.files and a batch id
\* present in lineage.batches.
C12_LineageComplete == LineageComplete(db)

\* C12 witness: a run aborted after it had committed canonical rows.
C12_Witness ==
    /\ lpc = "idle"
    /\ lraised # "none"
    /\ \E t \in DOMAIN db.tables :
          \E i \in 1..Len(db.tables[t].rows) :
              db.tables[t].rows[i].batch_id = batch_id


ColumnsKept(d, e) ==
    \A t \in DOMAIN d.tables :
        \A c \in DOMAIN d.tables[t].cols :
            /\ t \in DOMAIN e.tables
            /\ c \in DOMAIN e.tables[t].cols
            /\ e.tables[t].cols[c] = d.tables[t].cols[c]
            /\ << t, c >> \in DOMAIN d.registry
            /\ << t, c >> \in DOMAIN e.registry
            /\ e.registry[<< t, c >>] = d.registry[<< t, c >>]

\* C14 - schema evolution idempotence: a merge that completes (of a file
\* merged before, or of a later file carrying a field whose column exists,
\* whatever type its values infer to) leaves every existing column with
\* its type and its schema-history entry, and so does every step for the
\* committed store: a column is added once and its recorded type never
\* changes.
C14_EvolutionIdempotent ==
    [][ /\ (lpc \in {"merge", "remerge"} /\ lpc' = "commit") => ColumnsKept(tx, tx')
        /\ ColumnsKept(db, db')
     ]_vars

\* C14 witness: a merge completed for a file carrying a field whose column
\* existed with another type than the one the file's values infer to.
C14_Witness ==
    /\ lpc = "commit"
    /\ lcur.meta.table_name \in DOMAIN db.tables
    /\ \E i \in 1..Len(tx.tables[lcur.meta.table_name].rows) :
          \E r \in { tx.tables[lcur.meta.table_name].rows[i] } :
              /\ r.src_file_id = lcur.file_id
              /\ \E c \in DOMAIN r.vals :
                    /\ c \in DOMAIN db.tables[lcur.meta.table_name].cols
                    /\ r.vals[c][1] # db.tables[lcur.meta.table_name].cols[c]


FromScratch(d, path) ==
    \E r \in { register_file(d, file_seq, path, parse_path(path),
                              file_sha256(norm[path])) } :
        ~ HasStaged(r.db, r.file_id)

\* C16 - per-file atomicity: when a step of a file's work fails before the
\* file's commit, the store is afterwards the store of the last commit (no
\* staged row, added column, schema-history entry or canonical row written
\* for the file since then is visible), and a file that was being staged
\* is found unstaged by the next run, which processes it from scratch.
C16_FileAtomic ==
    [][ (lpc \in {"stage", "merge", "remerge"} /\ lraised' # "none")
            => /\ db' = db
               /\ tx' = db
               /\ lpc = "merge" => FromScratch(db', lcur.path)
     ]_vars

\* C16 witness: a run aborted in the INSERT of a file for which rows had
\* been staged and a column added in the same transaction; the column is
\* not in the committed table.
C16_Witness ==
    /\ lpc = "idle"
    /\ lraised = "DataError"
    /\ lcur.meta.table_name \in DOMAIN db.tables
    /\ \E i \in 1..Len(norm[lcur.path][1]) :
          /\ norm[lcur.path][1][i] \notin ReservedKeys
          /\ norm[lcur.path][1][i] \notin DOMAIN db.tables[lcur.meta.table_name].cols
    /\ FromScratch(db, lcur.path)


(***************************************************************************)
(* Phase one: what a concurrent reader finds at the final paths            *)
(***************************************************************************)

\* the complete contents of the members the source serves in this run
CompleteCsvs ==
    UNION { { upstream[t].members[i].rows : i \in 1..Len(upstream[t].members) } :
              t \in DOMAIN upstream } \ { << >> }

\* C17 - no partially written artifact at a final path: in every state a
\* concurrent reader can look at, each source.zip under data/raw is a
\* complete downloaded archive and each .csv under data/normalized holds
\* the complete rows of an archive member.
C17_NoPartialArtifact ==
    /\ \A path \in DOMAIN rawfs :
          path.name = "source.zip" => \E t \in DOMAIN upstream : rawfs[path] = upstream[t]
    /\ \A path \in DOMAIN norm : norm[path] \in CompleteCsvs


(***************************************************************************)
(* download_zip, attempt by attempt                                        *)
(***************************************************************************)
MAX_RETRIES == 3

\* RuntimeError(f"HTTP {r.status_code}") for a status other than 200
HttpErrors == { "HTTP 404", "HTTP 500" }

\* what requests.get raises
TransportErrors == { "ConnectionError", "Timeout" }

\* rows of a fabricated member
RowsFab == << << << "a" >>, << "b" >> >>, << << "A", "0" >>, << "1" >> >> >>

\* fabricate_zip_bytes(t): a valid archive of members
\* "<id>_<yyyy>-<mm>_token_NN.csv" (one member, NN one of 01 and 35)
fabricate_zip_bytes(t) ==
    { Archive(TRUE, TRUE, << NamedMember(t, << "t", "o", "k", "e", "n", "_" >> \o nn,
                                         TRUE, RowsFab) >>) :
        nn \in { << "0", "1" >>, << "3", "5" >> } }

\* if DRY_RUN: return fabricate_zip_bytes(t); if requests is None: raise
\* RuntimeError; else the loop is entered with attempt = 1
DlEnter ==
    /\ pc = "download"
    /\ \/ /\ buf' \in fabricate_zip_bytes(CurTask)
          /\ pc' = "returned"
          /\ UNCHANGED << attempt, raised >>
       \/ /\ raised' = "RuntimeError"
          /\ pc' = "raised"
          /\ UNCHANGED << attempt, buf >>
       \/ /\ attempt' = 1
          /\ pc' = "request"
          /\ UNCHANGED << buf, raised >>
    /\ UNCHANGED << last_err, values, inferred, batch_size, staged, stamps, st_call, cfg, done, tok,
                    manifest, rawfs, norm, upstream, pos, mi, types, call, workers, p2vars >>

\* one pass of the try block: r = requests.get(url, timeout=TIMEOUT); a
\* status other than 200 raises RuntimeError inside the try; return
\* r.content.  except Exception as e: last_err = e; after the last attempt
\* the loop ends and last_err is raised.
DlRequest ==
    /\ pc = "request"
    /\ \E resp \in { "200" } \cup HttpErrors \cup TransportErrors :
          IF resp = "200"
          THEN /\ buf' = upstream[CurTask]
               /\ pc' = "returned"
               /\ UNCHANGED << last_err, raised >>
          ELSE /\ last_err' = resp
               /\ IF attempt < MAX_RETRIES
                  THEN /\ pc' = "sleep"
                       /\ UNCHANGED raised
                  ELSE /\ pc' = "raised"
                       /\ raised' = resp
               /\ UNCHANGED buf
    /\ UNCHANGED << attempt, values, inferred, batch_size, staged, stamps, st_call, cfg, done, tok,
                    manifest, rawfs, norm, upstream, pos, mi, types, call, workers, p2vars >>

\* a backoff after which the loop variable does not advance
DlBackoffSameAttempt ==
    /\ pc = "sleep"
    /\ pc' = "request"
    /\ UNCHANGED << attempt, last_err, values, inferred, batch_size, staged, stamps, st_call, cfg, done, tok,
                    manifest, rawfs, norm, upstream, pos, buf, mi, raised,
                    types, call, workers, p2vars >>

\* time.sleep((2 ** attempt) + random.random()) and the next iteration
DlBackoff ==
    /\ pc = "sleep"
    /\ attempt' = attempt + 1
    /\ pc' = "request"
    /\ UNCHANGED << last_err, values, inferred, batch_size, staged, stamps, st_call, cfg, done, tok,
                    manifest, rawfs, norm, upstream, pos, buf, mi, raised,
                    types, call, workers, p2vars >>

\* download_zip called for one of the run's tasks
InitDl ==
    /\ types = << >>
    /\ call = NoCall
    /\ workers = << >>
    /\ manifest = << >>
    /\ rawfs = << >>
    /\ norm = << >>
    /\ upstream \in [RunTasks -> UNION { Catalog(t) : t \in RunTasks }]
    /\ \A t \in RunTasks : upstream[t] \in Catalog(t)
    /\ pos \in 1..RunLength
    /\ pc = "download"
    /\ buf = NoBuf
    /\ mi = 0
    /\ raised = "none"
    /\ P2Unused
    /\ LocalsUnused

NextDl ==
    \/ DlEnter
    \/ DlRequest
    \/ DlBackoff

SpecDl == InitDl /\ [][NextDl]_vars

\* requests.get returns or raises within TIMEOUT and time.sleep returns:
\* a call under way takes its next step
SpecDlFair == SpecDl /\ WF_vars(NextDl)

\* C18 - in download_zip only a transport failure leads to another attempt:
\* an attempt that ends with a non-success HTTP status ends the download
\* with that error, without a further request.
C18_HttpErrorNotRetried ==
    [][ (pc = "request" /\ pc' # "returned" /\ last_err' \in HttpErrors)
            => pc' = "raised"
     ]_vars


(***************************************************************************)
(* infer_type applied to samples                                           *)
(***************************************************************************)
MaxSample == 3

\* the values samples are made of: empty, integers, decimals, the four
\* date forms, and text
SampleValues ==
    { << >>,
      << "1" >>, << "-", "2" >>,
      << "1", ".", "5" >>,
      << "x" >>,
      << "2", "0", "1", "0", "-", "0", "1", "-", "0", "5" >>,
      << "2", "0", "1", "0", "-", "0", "1", "-", "0", "5", " ",
         "1", "0", ":", "0", "0", ":", "0", "0" >>,
      << "2", "0", "1", "0", "/", "0", "1", "/", "0", "5" >>,
      << "0", "5", "/", "0", "1", "/", "2", "0", "1", "0" >> }

Samples == UNION { [1..n -> SampleValues] : n \in 0..MaxSample }

InitInfer ==
    /\ types = << >>
    /\ call = NoCall
    /\ workers = << >>
    /\ P1Unused
    /\ P2Unused
    /\ attempt = 0
    /\ last_err = "none"
    /\ values \in Samples
    /\ inferred = "unset"
    /\ batch_size = 0
    /\ staged = 0
    /\ stamps = << >>
    /\ st_call = NoStatusCall
    /\ cfg = NoConfig
    /\ done = << >>
    /\ tok = NoValue

\* inferred = infer_type(values)
Infer ==
    /\ inferred = "unset"
    /\ inferred' = infer_type(values)
    /\ UNCHANGED << attempt, last_err, values, batch_size, staged, stamps, st_call, cfg, done, tok,
                    types, call, workers, p1vars, p2vars >>

NextInfer == Infer

SpecInfer == InitInfer /\ [][NextInfer]_vars

\* the non-empty values of a sample
NonEmpty(sample) == { sample[i] : i \in 1..Len(sample) } \ { << >>, None }

\* the class the rule gives a sample: the first of integer, decimal and
\* timestamp that every non-empty value belongs to, else text; text for a
\* sample of no values
ClassOf(sample) ==
    IF sample = << >> THEN "text"
    ELSE IF \A v \in NonEmpty(sample) : MatchesInt(v) THEN "bigint"
    ELSE IF \A v \in NonEmpty(sample) : MatchesNum(v) THEN "numeric"
    ELSE IF \A v \in NonEmpty(sample) : MatchesDate(v) THEN "timestamp"
    ELSE "text"

\* C19 - infer_type returns, for a sample, integer when every non-empty
\* value is an optionally signed digit string, else decimal when every
\* non-empty value is an optionally signed number with optional fraction,
\* else timestamp when every non-empty value has one of the four date
\* forms, else text; a sample whose non-empty values disagree on the class
\* is text, and so is the empty sample.
C19_InferTypeClasses ==
    inferred # "unset" =>
        /\ inferred = ClassOf(values)
        /\ values = << >> => inferred = "text"
        /\ (\E v, w \in NonEmpty(values) :
                \/ MatchesNum(v) /\ ~ MatchesNum(w)
                \/ MatchesDate(v) /\ ~ MatchesDate(w)) => inferred = "text"

\* C19 witness: the sample 1, 2, x was classified.
C19_Witness ==
    /\ inferred = "text"
    /\ values = << << "1" >>, << "-", "2" >>, << "x" >> >>


(***************************************************************************)
(* load_csv_to_staging applied to files, with batches of any size          *)
(***************************************************************************)
MaxRows == 4

MaxBatch == 3

\* files of one column with up to MaxRows data rows
StageContents ==
    { << << << "a" >> >> >> \o rows :
        rows \in UNION { [1..n -> { << << "1" >> >>, << << "x" >> >> }] : n \in 0..MaxRows } }

StagePath == TreeFile(1, 1, 2010, 1, << "a" >>)

\* the loader about to stage a registered file
InitStage ==
    /\ types = << >>
    /\ call = NoCall
    /\ workers = << >>
    /\ manifest = << >>
    /\ rawfs = << >>
    /\ \E content \in StageContents : norm = (StagePath :> content)
    /\ upstream = << >>
    /\ pos = 1
    /\ pc = "idle"
    /\ buf = NoBuf
    /\ mi = 0
    /\ raised = "none"
    /\ db = EmptyStore
    /\ tx = register_file(InsertBatch(EmptyStore, 1), 1, StagePath,
                          parse_path(StagePath), file_sha256(norm[StagePath])).db
    /\ file_seq = 2
    /\ sql_bound \in BOOLEAN
    /\ fmt_in_order = FALSE
    /\ lpc = "stage"
    /\ lfiles = << StagePath >>
    /\ li = 1
    /\ lcur = [file_id |-> 1, path |-> StagePath, meta |-> parse_path(StagePath)]
    /\ batch_id = 1
    /\ runs = 1
    /\ lraised = "none"
    /\ attempt = 0
    /\ last_err = "none"
    /\ values = << >>
    /\ inferred = "unset"
    /\ batch_size \in 1..MaxBatch
    /\ staged = 0
    /\ stamps = << >>
    /\ st_call = NoStatusCall
    /\ cfg = NoConfig
    /\ done = << >>
    /\ tok = NoValue

\* staged = load_csv_to_staging(...), the batches holding batch_size rows
StageBatched ==
    /\ lpc = "stage"
    /\ \E r \in { load_csv_to_staging_batched(tx, lcur.file_id, lcur.meta,
                                                norm[lcur.path], batch_size) } :
          /\ tx' = r.db
          /\ staged' = r.count
    /\ sql_bound' = (sql_bound \/ DictRows(norm[lcur.path]) # << >>)
    /\ lpc' = "merge"
    /\ UNCHANGED << db, file_seq, fmt_in_order, lfiles, li, lcur, batch_id, runs, lraised,
                    attempt, last_err, values, inferred, batch_size, stamps, st_call, cfg, done, tok,
                    types, call, workers, p1vars >>

NextStage == StageBatched

SpecStage == InitStage /\ [][NextStage]_vars

\* C20 - load_csv_to_staging stages one row per data row of the file,
\* numbered 1, 2, ..., n in file order with the header left out, and
\* returns n, whatever the batch size: the staged rows and the count are
\* those of the file alone.
C20_BatchIndependent ==
    lpc = "merge" =>
        /\ Len(StagedOf(tx, lcur.file_id)) = Len(norm[lcur.path]) - 1
        /\ \A i \in 1..Len(StagedOf(tx, lcur.file_id)) :
              /\ StagedOf(tx, lcur.file_id)[i].row_num = i
              /\ StagedOf(tx, lcur.file_id)[i].rec
                    = DictRecord(norm[lcur.path][1], norm[lcur.path][i + 1])
        /\ staged = Len(norm[lcur.path]) - 1

\* C20 witness: a file of three data rows was staged in batches of two (a
\* full batch and the rest).
C20_Witness ==
    /\ lpc = "merge"
    /\ batch_size = 2
    /\ staged = 3


(***************************************************************************)
(* Phase one with interruptions                                            *)
(***************************************************************************)

\* the process is killed inside process_task (after already_ok, before the
\* function returns): the manifest and the files stay as they are
Crash ==
    /\ pc \notin {"idle", "killed"}
    /\ pc' = "killed"
    /\ UNCHANGED << manifest, rawfs, norm, upstream, pos, buf, mi, raised,
                    types, call, workers, p2vars, locals >>

\* the program is started again after it was killed: main runs from the
\* first task
Reboot ==
    /\ pc = "killed"
    /\ \A t \in DOMAIN manifest : manifest[t].attempts < MaxAttempts
    /\ pc' = "idle"
    /\ pos' = 1
    /\ buf' = NoBuf
    /\ mi' = 0
    /\ raised' = "none"
    /\ UNCHANGED << manifest, rawfs, norm, upstream, types, call, workers, p2vars, locals >>

\* somebody outside the program deletes a normalized file
ExternalDeleteNorm ==
    /\ \E path \in DOMAIN norm : norm' = Without(norm, path)
    /\ UNCHANGED << manifest, rawfs, upstream, pos, pc, buf, mi, raised,
                    types, call, workers, p2vars, locals >>

NextCrash ==
    \/ Next
    \/ Crash
    \/ Reboot
    \/ ExternalDeleteNorm

SpecCrash == Init /\ [][NextCrash]_vars

\* task t's raw archive is on disk as served and every member of it that
\* has rows is on disk, complete, under the id, year, month and name
\* process_task derives for it
TaskComplete(t) ==
    /\ FinalPath(t) \in DOMAIN rawfs
    /\ rawfs[FinalPath(t)] = upstream[t]
    /\ \A i \in 1..Len(upstream[t].members) :
          \E m \in { upstream[t].members[i] } :
              (~ m.isdir /\ m.rows # << >>) =>
                  \E key \in { MemberKey(t, m) } :
                  \E path \in DOMAIN norm :
                      /\ path = NormPath(path.bucket, key.id, key.yyyy, key.mm, m.stem)
                      /\ norm[path] = m.rows

\* C21 - crash recovery: when process_task was interrupted for a task (at
\* any statement after the idempotency check), already_ok is false for
\* that task at the restart unless its raw archive is complete on disk and
\* every member of it was normalized, also when the task had an earlier ok
\* record and its artifacts were deleted externally.
C21_CrashRecovery ==
    pc = "killed" =>
        (already_ok(manifest, rawfs, CurTask) => TaskComplete(CurTask))


(***************************************************************************)
(* set_status, call by call                                                *)
(***************************************************************************)
\* the set_status calls followed in one behaviour
MaxStatusCalls == 3

\* datetime.utcnow() of the next call: later than every recorded time
NextNow ==
    1 + Cardinality({ n \in 1..MaxStatusCalls :
                        \E t \in DOMAIN stamps : n <= stamps[t].updated_at })

\* what process_task passes to set_status for task t: the ok call with the
\* final path and the digest of the bytes the site served, or the failed call
\* with the error text and neither path nor hash
StatusCalls(t) ==
    { [t |-> t, status |-> "ok", error |-> NoError, zip_path |-> FinalPath(t),
       zip_sha256 |-> sha256_bytes(a)] : a \in { upstream[t] } }
    \cup
    { [t |-> t, status |-> "failed", error |-> e, zip_path |-> NoPath,
       zip_sha256 |-> NoSha] : e \in { "ConnectionError", "OSError" } }

\* process_task(con, t) reaching one of its two set_status calls
SetStatus ==
    /\ \E t \in RunTasks :
          /\ ~ already_ok(manifest, rawfs, t)
          /\ NextNow <= MaxStatusCalls
          /\ \E c \in StatusCalls(t) :
                /\ manifest' = set_status(manifest, t, c.status, c.error,
                                           c.zip_path, c.zip_sha256)
                /\ stamps' = set_status_stamps(stamps, t, NextNow)
                /\ st_call' = c
    /\ UNCHANGED << rawfs, norm, upstream, pos, pc, buf, mi, raised,
                    attempt, last_err, values, inferred, batch_size, staged, cfg, done, tok,
                    types, call, workers, p2vars >>

\* process_task(con, t) returning at  if already_ok(con, t): return
SkipTask ==
    /\ \E t \in RunTasks :
          /\ already_ok(manifest, rawfs, t)
          /\ st_call' = [t |-> t, status |-> "skipped"]
    /\ UNCHANGED << manifest, stamps, rawfs, norm, upstream, pos, pc, buf, mi, raised,
                    attempt, last_err, values, inferred, batch_size, staged, cfg, done, tok,
                    types, call, workers, p2vars >>

\* the archives of the run's tasks are on disk, or none is; the manifest
\* is empty
InitStatus ==
    /\ types = << >>
    /\ call = NoCall
    /\ workers = << >>
    /\ manifest = << >>
    /\ upstream \in [RunTasks -> UNION { Catalog(t) : t \in RunTasks }]
    /\ \A t \in RunTasks : upstream[t] \in Catalog(t)
    /\ rawfs \in { << >>, [path \in { FinalPath(t) : t \in RunTasks } |->
                              upstream[CHOOSE t \in RunTasks : FinalPath(t) = path]] }
    /\ norm = << >>
    /\ pos = 1
    /\ pc = "idle"
    /\ buf = NoBuf
    /\ mi = 0
    /\ raised = "none"
    /\ P2Unused
    /\ LocalsUnused

NextStatus ==
    \/ SetStatus
    \/ SkipTask

SpecStatus == InitStatus /\ [][NextStatus]_vars

\* C22 - every set_status call for a task raises the task's attempt
\* counter by exactly 1 (to 1 on the first call) and overwrites status,
\* error, path and hash with the values passed (a failed call clears a
\* recorded path and hash); the records of other tasks and the created-at
\* time of the record stay as they are; a process_task call that the
\* idempotency check skips leaves the manifest as it is.
C22_SetStatusFrame ==
    [][ /\ manifest' # manifest =>
              \E c \in { st_call' } :
                  /\ DOMAIN manifest' = DOMAIN manifest \cup { c.t }
                  /\ manifest'[c.t].attempts
                        = (IF c.t \in DOMAIN manifest THEN manifest[c.t].attempts ELSE 0) + 1
                  /\ manifest'[c.t].status = c.status
                  /\ manifest'[c.t].error = c.error
                  /\ manifest'[c.t].zip_path = c.zip_path
                  /\ manifest'[c.t].zip_sha256 = c.zip_sha256
                  /\ \A u \in DOMAIN manifest \ { c.t } :
                        manifest'[u] = manifest[u] /\ stamps'[u] = stamps[u]
                  /\ c.t \in DOMAIN stamps =>
                        stamps'[c.t].created_at = stamps[c.t].created_at
        /\ st_call'.status = "skipped" => (manifest' = manifest /\ stamps' = stamps)
     ]_vars

\* C22 witness: a failed call was made for a task that had a recorded path
\* (its second call, at a later time than its creation), next to another
\* task's record.
C22_Witness ==
    /\ st_call.status = "failed"
    /\ manifest[st_call.t].attempts = 2
    /\ manifest[st_call.t].zip_path = NoPath
    /\ stamps[st_call.t].created_at < stamps[st_call.t].updated_at
    /\ \E u \in DOMAIN manifest : u # st_call.t /\ manifest[u].status = "ok"


\* C23 - download_zip always terminates: it makes at most MAX_RETRIES
\* request attempts, returns the content of the first successful attempt
\* without a further attempt, waits only between attempts (never after the
\* last one), and after the last failed attempt raises the error of that
\* attempt.
C23_DownloadTerminates ==
    /\ <>(pc \in { "returned", "raised" })
    /\ [](attempt <= MAX_RETRIES)
    /\ [](pc = "sleep" => attempt < MAX_RETRIES)
    /\ [][ /\ (pc = "request" /\ pc' = "returned") => buf' = upstream[CurTask]
           /\ (pc = "request" /\ pc' = "sleep") => attempt < MAX_RETRIES
           /\ (pc = "request" /\ pc' = "raised") =>
                  /\ attempt = MAX_RETRIES
                  /\ last_err' \in HttpErrors \cup TransportErrors
                  /\ raised' = last_err'
           /\ attempt' # attempt => (attempt' = attempt + 1 /\ pc \in { "download", "sleep" })
           /\ pc \notin { "returned", "raised" }
        ]_vars

\* C23 witness: the third attempt failed after two failed attempts with
\* other errors, and its error was raised.
C23_Witness ==
    /\ pc = "raised"
    /\ attempt = MAX_RETRIES
    /\ raised = "Timeout"
    /\ last_err = "Timeout"


(***************************************************************************)
(* main, task by task                                                      *)
(***************************************************************************)
MaxCeiling == 3

\* identifier lists: none, one, two in either order
IdLists ==
    { << >>, << ZeroPad(1, 5) >>, << ZeroPad(1, 5), ZeroPad(2, 5) >>,
      << ZeroPad(2, 5), ZeroPad(1, 5) >> }

\* start and end months on both sides of a year's end
Starts == { << 2009, 11 >>, << 2009, 12 >>, << 2010, 1 >> }

Ends == { << 2010, 1 >>, << 2010, 2 >> }

InitMain ==
    /\ types = << >>
    /\ call = NoCall
    /\ workers = << >>
    /\ manifest = << >>
    /\ rawfs = << >>
    /\ norm = << >>
    /\ upstream = << >>
    /\ pos = 1
    /\ pc = "main"
    /\ buf = NoBuf
    /\ mi = 0
    /\ raised = "none"
    /\ P2Unused
    /\ attempt = 0
    /\ last_err = "none"
    /\ values = << >>
    /\ inferred = "unset"
    /\ batch_size = 0
    /\ staged = 0
    /\ stamps = << >>
    /\ st_call = NoStatusCall
    /\ cfg \in [ids : IdLists, start : Starts, end : Ends, max_tasks : 0..MaxCeiling]
    /\ done = << >>
    /\ tok = NoValue

\* one pass of  for t in tasks: if MAX_TASKS and processed >= MAX_TASKS:
\* break; process_task(con, t); processed += 1  (processed = Len(done));
\* the loop ends at the break or when the generator is exhausted
MainStep ==
    /\ pc = "main"
    /\ \E ts \in { tasks(cfg.ids, cfg.start, cfg.end) } :
          IF pos > Len(ts) \/ (cfg.max_tasks # 0 /\ Len(done) >= cfg.max_tasks)
          THEN /\ pc' = "ended"
               /\ UNCHANGED << pos, done >>
          ELSE /\ done' = Append(done, ts[pos])
               /\ pos' = pos + 1
               /\ UNCHANGED pc
    /\ UNCHANGED << manifest, rawfs, norm, upstream, buf, mi, raised,
                    attempt, last_err, values, inferred, batch_size, staged,
                    stamps, st_call, cfg, tok, types, call, workers, p2vars >>

NextMain == MainStep

SpecMain == InitMain /\ [][NextMain]_vars

\* (yyyy, mm) a is not later than b
YmLeq(a, b) == a[1] < b[1] \/ (a[1] = b[1] /\ a[2] <= b[2])

\* the months from start to end inclusive
MonthsBetween(start, end) ==
    { ym \in (start[1]..end[1]) \X (1..12) : YmLeq(start, ym) /\ YmLeq(ym, end) }

\* the cross product of the identifiers and the months
CrossProduct(c) ==
    { Task(c.ids[i], ym[1], ym[2]) : i \in 1..Len(c.ids), ym \in MonthsBetween(c.start, c.end) }

IdIndex(c, t) == CHOOSE i \in 1..Len(c.ids) : c.ids[i] = t.id

\* t comes before u: identifier-major, then chronological
Before(c, t, u) ==
    \/ IdIndex(c, t) < IdIndex(c, u)
    \/ /\ t.id = u.id
       /\ YmLeq(<< t.yyyy, t.mm >>, << u.yyyy, u.mm >>)
       /\ << t.yyyy, t.mm >> # << u.yyyy, u.mm >>

\* C24 - the task sequence is the cross product of the identifier list and
\* every month from start to end inclusive, each task once, identifier-major
\* and then chronological (months 1..12, the year rolling over after
\* December); a run with ceiling M > 0 processes exactly the first
\* min(M, total) tasks of it, a run with ceiling 0 all of them.
C24_TaskSequence ==
    pc = "ended" =>
        LET total == Cardinality(CrossProduct(cfg))
        IN  /\ Len(done) = IF cfg.max_tasks > 0 /\ cfg.max_tasks < total
                           THEN cfg.max_tasks ELSE total
            /\ \A i \in 1..Len(done) : done[i] \in CrossProduct(cfg)
            /\ \A i, j \in 1..Len(done) : i < j => Before(cfg, done[i], done[j])
            /\ \A i \in 1..Len(done) : \A u \in CrossProduct(cfg) :
                  Before(cfg, u, done[i]) => \E j \in 1..(i - 1) : done[j] = u

\* C24 witness: a run with ceiling 3 over two identifiers and December
\* 2009 to January 2010 ended after the first identifier's two months and
\* the second identifier's December.
C24_Witness ==
    /\ pc = "ended"
    /\ cfg.max_tasks = 3
    /\ done = << Task(ZeroPad(2, 5), 2009, 12), Task(ZeroPad(2, 5), 2010, 1),
                 Task(ZeroPad(1, 5), 2009, 12) >>


(***************************************************************************)
(* sanitize_token applied in process_task and again in get_or_alloc_type   *)
(***************************************************************************)
MaxTokenLen == 4

\* the characters tokens are made of: upper and lower case letters, a
\* digit, the underscore, and a character outside [A-Za-z0-9_]
TokenChars == { "A", "T", "b", "t", "1", "_", "-" }

TokenStrings == UNION { [1..n -> TokenChars] : n \in 0..MaxTokenLen }

InitSanitize ==
    /\ types = << >>
    /\ call = NoCall
    /\ workers = << >>
    /\ manifest = << >>
    /\ rawfs = << >>
    /\ norm = << >>
    /\ upstream = << >>
    /\ pos = 1
    /\ pc = "member"
    /\ buf = NoBuf
    /\ mi = 0
    /\ raised = "none"
    /\ P2Unused
    /\ attempt = 0
    /\ last_err = "none"
    /\ values = << >>
    /\ inferred = "unset"
    /\ batch_size = 0
    /\ staged = 0
    /\ stamps = << >>
    /\ st_call = NoStatusCall
    /\ cfg = NoConfig
    /\ done = << >>
    /\ tok \in TokenStrings

\* process_task: token = sanitize_token(m.group("table")), or of the last
\* underscore piece of the stem
SanitizeInTask ==
    /\ pc = "member"
    /\ tok' = sanitize_token(tok)
    /\ pc' = "get_or_alloc_type"
    /\ UNCHANGED << manifest, rawfs, norm, upstream, pos, buf, mi, raised,
                    attempt, last_err, values, inferred, batch_size, staged,
                    stamps, st_call, cfg, done, types, call, workers, p2vars >>

\* get_or_alloc_type: token = sanitize_token(token), the key of the lookup
SanitizeInAlloc ==
    /\ pc = "get_or_alloc_type"
    /\ tok' = sanitize_token(tok)
    /\ pc' = "lookup"
    /\ UNCHANGED << manifest, rawfs, norm, upstream, pos, buf, mi, raised,
                    attempt, last_err, values, inferred, batch_size, staged,
                    stamps, st_call, cfg, done, types, call, workers, p2vars >>

NextSanitize ==
    \/ SanitizeInTask
    \/ SanitizeInAlloc

SpecSanitize == InitSanitize /\ [][NextSanitize]_vars

\* C25 - sanitize_token is total and idempotent: the result for any input
\* string is non-empty, consists of lowercase letters, digits and
\* underscores, does not start with a digit, and is returned unchanged by
\* a second sanitization, so the sanitization in process_task followed by
\* the one in get_or_alloc_type gives the key a single one gives.
C25_SanitizeIdempotent ==
    [][ /\ pc = "member" =>
              /\ tok' # << >>
              /\ \A i \in 1..Len(tok') :
                    IsLower(tok'[i]) \/ IsDigit(tok'[i]) \/ tok'[i] = "_"
              /\ ~ IsDigit(tok'[1])
        /\ pc = "get_or_alloc_type" => tok' = tok
     ]_vars

\* C25 witness: a token that needed the prefix and the replacement of a
\* character has gone through both sanitizations.
C25_Witness ==
    /\ pc = "lookup"
    /\ tok = << "t", "_", "1", "_", "a" >>

====
